---- MODULE Spec2Model ----
(***************************************************************************)
(* Futex-based locks of steed: src/src/sys/linux/mutex.rs (Mutex and       *)
(* ReentrantMutex) and src/src/sys/linux/rwlock.rs (RWLock).               *)
(* Every atomic memory access and every futex syscall of                   *)
(* an operation is one step of the calling thread; threads interleave      *)
(* freely between steps.  Atomics are modelled sequentially consistent.    *)
(***************************************************************************)
EXTENDS Integers, FiniteSets, Sequences, TLC

\* Number of threads of the free-running clients.
NThreads == 3
Threads == 1..NThreads

\* examples/mutex.rs: NTHREADS threads, ITERATIONS rounds each (100 x 100 in the source).
NTHREADS == 2
ITERATIONS == 2
TestThreads == 1..NTHREADS
\* Nesting depth up to which the callers of the ReentrantMutex acquire.
MaxDepth == 2

\* examples/mutex.rs: Mutex::new(5)
InitialData == 5

\* Width of usize, scaled down: the largest value an AtomicUsize holds.
USIZE_MAX == 7
\* rwlock.rs:17
RWLOCK_WRITER == USIZE_MAX
\* Read holds up to which one caller of the RWLock nests its read locks.
MaxReads == 2

\* The third futex argument of both FUTEX_WAIT calls of mutex.rs (lines 59, 141).
FUTEX_WAIT_VAL == 0

\* The kernel reads a 32-bit word at the address of the one-byte `locked`
\* cell.  The three bytes that follow are padding of the struct, which no
\* code initialises: 0 stands for "all zero", 1 for "some bit set".
PadValues == {0, 1}

VARIABLES
    mutex,      \* Mutex { locked, waiters } and the padding after `locked`
    mpc,        \* per thread: where it is inside a Mutex operation
    mret,       \* per thread: the value its last try_lock returned
    mholds,     \* per thread: it acquired the Mutex and has not called unlock since
    data,       \* examples/mutex.rs: the integer the Mutex guards
    local,      \* examples/mutex.rs: the value a thread read for `*data += 1`
    iter,       \* examples/mutex.rs: rounds a thread has completed
    rmutex,     \* ReentrantMutex { locked, waiters, owner, reentrance_count } and padding
    rpc,        \* per thread: where it is inside a ReentrantMutex operation
    rret,       \* per thread: the value its last ReentrantMutex::try_lock returned
    rdepth,     \* per thread: successful lock/try_lock calls not yet matched by unlock calls
    rwlock,     \* RWLock { users, waiters }
    wpc,        \* per thread: where it is inside an RWLock operation
    wusers,     \* per thread: the local `users` / `users_prev` of the operation it is in
    wret,       \* per thread: the value its last try_read / try_write returned
    rheld,      \* per thread: successful read/try_read calls not yet matched by read_unlock calls
    wheld       \* per thread: it acquired the write lock and has not called write_unlock since

test == <<data, local, iter>>
\* What the operations of one lock leave alone: the other lock and its clients.
rwVars == <<rwlock, wpc, wusers, wret, rheld, wheld>>
notMutex == <<rmutex, rpc, rret, rdepth, rwVars>>
notRMutex == <<mutex, mpc, mret, mholds, data, local, iter, rwVars>>
notRWLock == <<mutex, mpc, mret, mholds, rmutex, rpc, rret, rdepth>>
vars == <<mutex, mpc, mret, mholds, data, local, iter, rmutex, rpc, rret, rdepth,
          rwlock, wpc, wusers, wret, rheld, wheld>>

\* thread::current().thread is never null; the owner slot holds this when empty.
NullThread == 0

\* The word FUTEX_WAIT compares: byte 0 is the bool, bytes 1..3 the padding.
FutexWord(locked, pad) == (IF locked THEN 1 ELSE 0) + 256 * pad

\* AtomicBool::compare_and_swap(current, new): the value stored afterwards.
CasStored(cell, current, new) == IF cell = current THEN new ELSE cell

\* Mutex::new()
MutexInit ==
    /\ mutex \in {[locked |-> FALSE, waiters |-> 0, pad |-> p] : p \in PadValues}
    /\ mpc = [t \in Threads |-> "idle"]
    /\ mret = [t \in Threads |-> FALSE]
    /\ mholds = [t \in Threads |-> FALSE]
    /\ data = InitialData
    /\ local = [t \in Threads |-> 0]
    /\ iter = [t \in Threads |-> 0]

\* ReentrantMutex::new(), mutex.rs:98-105
RMutexInit ==
    /\ rmutex \in {[locked |-> FALSE, waiters |-> 0, owner |-> NullThread,
                    reentrance_count |-> 0, pad |-> p] : p \in PadValues}
    /\ rpc = [t \in Threads |-> "idle"]
    /\ rret = [t \in Threads |-> FALSE]
    /\ rdepth = [t \in Threads |-> 0]

\* RWLock::new(), rwlock.rs:34-40
RWLockInit ==
    /\ rwlock = [users |-> 0, waiters |-> 0]
    /\ wpc = [t \in Threads |-> "idle"]
    /\ wusers = [t \in Threads |-> 0]
    /\ wret = [t \in Threads |-> FALSE]
    /\ rheld = [t \in Threads |-> 0]
    /\ wheld = [t \in Threads |-> FALSE]

Init == MutexInit /\ RMutexInit /\ RWLockInit

------------------------------------------------------------------------------
(* Mutex::try_lock, mutex.rs:45-48 *)

Mutex_try_lock_bug_always_true(t) ==
    /\ mpc[t] = "try_cas"
    /\ mutex' = [mutex EXCEPT !.locked = TRUE]
    /\ mret' = [mret EXCEPT ![t] = TRUE]
    /\ mpc' = [mpc EXCEPT ![t] = "try_ret"]
    /\ UNCHANGED <<mholds, test, notMutex>>

Mutex_try_lock_bug_returns_prev(t) ==
    /\ mpc[t] = "try_cas"
    /\ LET locked_prev == mutex.locked IN
        /\ mutex' = [mutex EXCEPT !.locked = CasStored(locked_prev, FALSE, TRUE)]
        /\ mret' = [mret EXCEPT ![t] = locked_prev]
    /\ mpc' = [mpc EXCEPT ![t] = "try_ret"]
    /\ UNCHANGED <<mholds, test, notMutex>>

Mutex_try_lock_bug_counts_waiter(t) ==
    /\ mpc[t] = "try_cas"
    /\ LET locked_prev == mutex.locked IN
        /\ mutex' = [mutex EXCEPT !.locked = CasStored(locked_prev, FALSE, TRUE),
                                  !.waiters = IF locked_prev THEN @ + 1 ELSE @]
        /\ mret' = [mret EXCEPT ![t] = ~locked_prev]
    /\ mpc' = [mpc EXCEPT ![t] = "try_ret"]
    /\ UNCHANGED <<mholds, test, notMutex>>

Mutex_try_lock(t) ==
    /\ mpc[t] = "try_cas"
    /\ LET locked_prev == mutex.locked IN
        /\ mutex' = [mutex EXCEPT !.locked = CasStored(locked_prev, FALSE, TRUE)]
        /\ mret' = [mret EXCEPT ![t] = ~locked_prev]
    /\ mpc' = [mpc EXCEPT ![t] = "try_ret"]
    /\ UNCHANGED <<mholds, test, notMutex>>

------------------------------------------------------------------------------
(* Mutex::lock, mutex.rs:50-62 *)

Mutex_lock_cas_bug_no_check(t) ==
    /\ mpc[t] = "lock_cas"
    /\ mutex' = [mutex EXCEPT !.locked = TRUE]
    /\ mpc' = [mpc EXCEPT ![t] = "lock_ret"]
    /\ UNCHANGED <<mret, mholds, test, notMutex>>

\* line 52-55: the compare-and-swap and the break
Mutex_lock_cas(t) ==
    /\ mpc[t] = "lock_cas"
    /\ LET locked_prev == mutex.locked IN
        /\ mutex' = [mutex EXCEPT !.locked = CasStored(locked_prev, FALSE, TRUE)]
        /\ mpc' = [mpc EXCEPT ![t] = IF ~locked_prev THEN "lock_ret" ELSE "lock_add"]
    /\ UNCHANGED <<mret, mholds, test, notMutex>>

\* line 57: waiters.fetch_add(1)
Mutex_lock_fetch_add(t) ==
    /\ mpc[t] = "lock_add"
    /\ mutex' = [mutex EXCEPT !.waiters = @ + 1]
    /\ mpc' = [mpc EXCEPT ![t] = "lock_wait"]
    /\ UNCHANGED <<mret, mholds, test, notMutex>>

\* line 58-59: FUTEX_WAIT suspends the caller iff the word equals its third
\* argument at the instant of the check, and returns at once otherwise.
Mutex_lock_futex_wait(t) ==
    /\ mpc[t] = "lock_wait"
    /\ mpc' = [mpc EXCEPT ![t] =
                 IF FutexWord(mutex.locked, mutex.pad) = FUTEX_WAIT_VAL
                 THEN "lock_blocked" ELSE "lock_sub"]
    /\ UNCHANGED <<mutex, mret, mholds, test, notMutex>>

\* FUTEX_WAIT may return without a wake (a signal): the spurious return.
Mutex_lock_futex_interrupt(t) ==
    /\ mpc[t] = "lock_blocked"
    /\ mpc' = [mpc EXCEPT ![t] = "lock_sub"]
    /\ UNCHANGED <<mutex, mret, mholds, test, notMutex>>

Mutex_lock_fetch_sub_bug_no_decrement(t) ==
    /\ mpc[t] = "lock_sub"
    /\ mpc' = [mpc EXCEPT ![t] = "lock_cas"]
    /\ UNCHANGED <<mutex, mret, mholds, test, notMutex>>

\* line 60: waiters.fetch_sub(1), then back to the top of the loop.  It always
\* follows the same thread's fetch_add, so the counter is positive here.
Mutex_lock_fetch_sub(t) ==
    /\ mpc[t] = "lock_sub"
    /\ mutex' = [mutex EXCEPT !.waiters = @ - 1]
    /\ mpc' = [mpc EXCEPT ![t] = "lock_cas"]
    /\ UNCHANGED <<mret, mholds, test, notMutex>>

------------------------------------------------------------------------------
(* Mutex::unlock, mutex.rs:64-77 *)

Mutex_unlock_cas_bug_panic_inverted(t) ==
    /\ mpc[t] = "unlock_cas"
    /\ LET locked_prev == mutex.locked IN
        /\ mutex' = [mutex EXCEPT !.locked = CasStored(locked_prev, TRUE, FALSE)]
        /\ mpc' = [mpc EXCEPT ![t] = IF ~locked_prev THEN "unlock_load" ELSE "panic"]
    /\ UNCHANGED <<mret, mholds, test, notMutex>>

\* line 65-66, 74-76: the compare-and-swap; panic!("mutex is not locked")
Mutex_unlock_cas(t) ==
    /\ mpc[t] = "unlock_cas"
    /\ LET locked_prev == mutex.locked IN
        /\ mutex' = [mutex EXCEPT !.locked = CasStored(locked_prev, TRUE, FALSE)]
        /\ mpc' = [mpc EXCEPT ![t] = IF locked_prev THEN "unlock_load" ELSE "panic"]
    /\ UNCHANGED <<mret, mholds, test, notMutex>>

\* line 67: waiters.load() != 0
Mutex_unlock_load_waiters(t) ==
    /\ mpc[t] = "unlock_load"
    /\ mpc' = [mpc EXCEPT ![t] = IF mutex.waiters # 0 THEN "unlock_wake" ELSE "unlock_ret"]
    /\ UNCHANGED <<mutex, mret, mholds, test, notMutex>>

Mutex_unlock_futex_wake_bug_wakes_all(t) ==
    /\ mpc[t] = "unlock_wake"
    /\ mpc' = [s \in Threads |-> IF s = t THEN "unlock_ret"
                                 ELSE IF mpc[s] = "lock_blocked" THEN "lock_sub"
                                 ELSE mpc[s]]
    /\ UNCHANGED <<mutex, mret, mholds, test, notMutex>>

\* line 71-72: FUTEX_WAKE with count 1 resumes one suspended thread, if any.
Mutex_unlock_futex_wake(t) ==
    /\ mpc[t] = "unlock_wake"
    /\ LET blocked == {s \in Threads : mpc[s] = "lock_blocked"} IN
        IF blocked = {}
        THEN mpc' = [mpc EXCEPT ![t] = "unlock_ret"]
        ELSE \E s \in blocked :
                mpc' = [mpc EXCEPT ![t] = "unlock_ret", ![s] = "lock_sub"]
    /\ UNCHANGED <<mutex, mret, mholds, test, notMutex>>

\* The steps of thread t inside lock, try_lock and unlock.
MutexStep(t) ==
    \/ Mutex_try_lock(t)
    \/ Mutex_lock_cas(t)
    \/ Mutex_lock_fetch_add(t)
    \/ Mutex_lock_futex_wait(t)
    \/ Mutex_lock_fetch_sub(t)
    \/ Mutex_unlock_cas(t)
    \/ Mutex_unlock_load_waiters(t)
    \/ Mutex_unlock_futex_wake(t)

------------------------------------------------------------------------------
(* Callers of the Mutex: any thread may call lock or try_lock when it is   *)
(* not inside a call, and unlock when it holds the Mutex.                  *)

MCallLock(t) ==
    /\ mpc[t] = "idle" /\ ~mholds[t]
    /\ mpc' = [mpc EXCEPT ![t] = "lock_cas"]
    /\ UNCHANGED <<mutex, mret, mholds, test, notMutex>>

MCallTryLock(t) ==
    /\ mpc[t] = "idle"
    /\ mpc' = [mpc EXCEPT ![t] = "try_cas"]
    /\ UNCHANGED <<mutex, mret, mholds, test, notMutex>>

MCallUnlock(t) ==
    /\ mpc[t] = "idle" /\ mholds[t]
    /\ mpc' = [mpc EXCEPT ![t] = "unlock_cas"]
    /\ mholds' = [mholds EXCEPT ![t] = FALSE]
    /\ UNCHANGED <<mutex, mret, test, notMutex>>

\* lock() returned: the caller holds the Mutex.
MLockReturn(t) ==
    /\ mpc[t] = "lock_ret"
    /\ mpc' = [mpc EXCEPT ![t] = "idle"]
    /\ mholds' = [mholds EXCEPT ![t] = TRUE]
    /\ UNCHANGED <<mutex, mret, test, notMutex>>

\* try_lock() returned: the caller holds the Mutex if it returned true.
MTryLockReturn(t) ==
    /\ mpc[t] = "try_ret"
    /\ mpc' = [mpc EXCEPT ![t] = "idle"]
    /\ mholds' = [mholds EXCEPT ![t] = @ \/ mret[t]]
    /\ mret' = [mret EXCEPT ![t] = FALSE]
    /\ UNCHANGED <<mutex, test, notMutex>>

MUnlockReturn(t) ==
    /\ mpc[t] = "unlock_ret"
    /\ mpc' = [mpc EXCEPT ![t] = "idle"]
    /\ UNCHANGED <<mutex, mret, mholds, test, notMutex>>

\* Misuse: unlock by a thread that does not hold the Mutex.
MCallUnlockNotHeld(t) ==
    /\ mpc[t] = "idle" /\ ~mholds[t]
    /\ mpc' = [mpc EXCEPT ![t] = "unlock_cas"]
    /\ UNCHANGED <<mutex, mret, mholds, test, notMutex>>

\* Misuse: lock by the thread that holds the Mutex (it can never return).
MCallLockHeld(t) ==
    /\ mpc[t] = "idle" /\ mholds[t]
    /\ mpc' = [mpc EXCEPT ![t] = "lock_cas"]
    /\ UNCHANGED <<mutex, mret, mholds, test, notMutex>>

MutexClient(t) ==
    \/ MCallLock(t)
    \/ MCallTryLock(t)
    \/ MCallUnlock(t)
    \/ MLockReturn(t)
    \/ MTryLockReturn(t)
    \/ MUnlockReturn(t)

NextMutex ==
    \E t \in Threads :
        \/ MutexStep(t)
        \/ Mutex_lock_futex_interrupt(t)
        \/ MutexClient(t)

NextMutexMisuse ==
    \E t \in Threads :
        \/ MutexStep(t)
        \/ Mutex_lock_futex_interrupt(t)
        \/ MutexClient(t)
        \/ MCallUnlockNotHeld(t)
        \/ MCallLockHeld(t)

\* Callers that unlock only what they hold.
SpecMutex == Init /\ [][NextMutex]_vars

\* Callers that may also unlock what they do not hold, or lock twice.
SpecMutexMisuse == Init /\ [][NextMutexMisuse]_vars

\* Every thread inside an operation keeps taking steps (a suspended thread
\* has none of its own), and a thread that holds the Mutex eventually calls
\* unlock.  Threads need not ask for the Mutex again, and FUTEX_WAIT need
\* not return spuriously.
MutexFairness ==
    \A t \in Threads :
        /\ WF_vars(MutexStep(t))
        /\ WF_vars(MLockReturn(t) \/ MTryLockReturn(t) \/ MUnlockReturn(t))
        /\ SF_vars(MCallUnlock(t))

SpecMutexFair == Init /\ [][NextMutex]_vars /\ MutexFairness

------------------------------------------------------------------------------
(* examples/mutex.rs, test_mutex: each thread, ITERATIONS times: lock,     *)
(* *data += 1, try_lock (which must fail), drop the guard (unlock).        *)

\* line 24: data.lock()
TestCallLock(t) ==
    /\ t \in TestThreads
    /\ mpc[t] = "idle" /\ iter[t] < ITERATIONS
    /\ mpc' = [mpc EXCEPT ![t] = "lock_cas"]
    /\ UNCHANGED <<mutex, mret, mholds, test, notMutex>>

\* line 25: the read of `*data += 1`
TestRead(t) ==
    /\ mpc[t] = "lock_ret"
    /\ local' = [local EXCEPT ![t] = data]
    /\ mholds' = [mholds EXCEPT ![t] = TRUE]
    /\ mpc' = [mpc EXCEPT ![t] = "test_write"]
    /\ UNCHANGED <<mutex, mret, data, iter, notMutex>>

\* line 25: the write of `*data += 1`; line 27: try_lock()
TestWrite(t) ==
    /\ mpc[t] = "test_write"
    /\ data' = local[t] + 1
    /\ mpc' = [mpc EXCEPT ![t] = "try_cas"]
    /\ UNCHANGED <<mutex, mret, mholds, local, iter, notMutex>>

\* line 27-30: Ok(_) => panic!("cannot re-lock non-reentrant mutex");
\* otherwise the guard is dropped at the end of the round.
TestCheck(t) ==
    /\ mpc[t] = "try_ret" /\ t \in TestThreads
    /\ IF mret[t]
       THEN mpc' = [mpc EXCEPT ![t] = "panic"] /\ UNCHANGED mholds
       ELSE /\ mpc' = [mpc EXCEPT ![t] = "unlock_cas"]
            /\ mholds' = [mholds EXCEPT ![t] = FALSE]
    /\ mret' = [mret EXCEPT ![t] = FALSE]
    /\ UNCHANGED <<mutex, test, notMutex>>

\* line 20: the next round
TestRoundDone(t) ==
    /\ mpc[t] = "unlock_ret"
    /\ iter' = [iter EXCEPT ![t] = @ + 1]
    /\ mpc' = [mpc EXCEPT ![t] = "idle"]
    /\ UNCHANGED <<mutex, mret, mholds, data, local, notMutex>>

NextMutexTest ==
    \E t \in Threads :
        \/ MutexStep(t)
        \/ Mutex_lock_futex_interrupt(t)
        \/ TestCallLock(t)
        \/ TestRead(t)
        \/ TestWrite(t)
        \/ TestCheck(t)
        \/ TestRoundDone(t)

SpecMutexTest == Init /\ [][NextMutexTest]_vars

\* line 36-38: every spawned thread was joined.
TestFinished == \A t \in TestThreads : mpc[t] = "idle" /\ iter[t] = ITERATIONS

------------------------------------------------------------------------------
(* Properties of the Mutex *)

\* Thread t is between a successful acquire and the compare-and-swap of its
\* matching unlock.
Acquired(t) ==
    \/ mholds[t]
    \/ mpc[t] = "lock_ret"
    \/ (mpc[t] = "try_ret" /\ mret[t])
    \/ mpc[t] = "unlock_cas"

InLock(t) == mpc[t] \in {"lock_cas", "lock_add", "lock_wait", "lock_blocked", "lock_sub"}

\* C1: mutual exclusion.  In every interleaving of lock, try_lock and unlock
\* (spurious returns of the wait included) at most one thread is between a
\* successful acquire and its matching unlock.
C1_MutualExclusion == Cardinality({t \in Threads : Acquired(t)}) <= 1

\* C1 witness: one thread holds the Mutex while another, back from the wait
\* call inside lock(), is about to retry.
C1_Witness ==
    \E t, s \in Threads :
        t # s /\ mholds[t] /\ mpc[s] = "lock_sub" /\ mutex.waiters > 0

\* Increments of `data` thread t has completed: one per finished round, and
\* one more once the write of its current round is done.
WritesDone(t) ==
    iter[t] + (IF mpc[t] \in {"try_cas", "try_ret", "unlock_cas", "unlock_load",
                              "unlock_wake", "unlock_ret", "panic"} THEN 1 ELSE 0)

RECURSIVE SumWrites(_)
SumWrites(S) == IF S = {} THEN 0
                ELSE LET t == CHOOSE x \in S : TRUE IN WritesDone(t) + SumWrites(S \ {t})

\* C2: no lost updates.  The guarded integer always equals its initial value
\* plus the number of increments completed so far; so once every thread of
\* test_mutex has finished its ITERATIONS rounds of lock / read / write+1 /
\* unlock, it is the initial value plus NTHREADS * ITERATIONS.
C2_NoLostUpdates ==
    /\ data = InitialData + SumWrites(TestThreads)
    /\ TestFinished => data = InitialData + NTHREADS * ITERATIONS

\* C2 witness: all threads have finished.
C2_Witness == TestFinished /\ data > InitialData

\* C3: lock blocks only until the Mutex becomes available.  No thread stays
\* suspended in the wait call forever while the Mutex is unlocked, and
\* whenever the Mutex is free with a thread inside lock(), it is eventually
\* acquired.
C3_LockEventuallyAcquires ==
    /\ \A t \in Threads : []<>(~(mpc[t] = "lock_blocked" /\ ~mutex.locked))
    /\ (~mutex.locked /\ \E t \in Threads : InLock(t)) ~> mutex.locked

\* C4: non-reentrancy.  try_lock returns true only if the locked cell was
\* false at the instant of its compare-and-swap (which then made it true),
\* and a thread that holds the Mutex always gets false.
C4_TryLockNonReentrant ==
    [][\A t \in Threads :
        (mpc[t] = "try_cas" /\ mpc'[t] = "try_ret") =>
            /\ mret'[t] => (~mutex.locked /\ mutex'.locked)
            /\ mholds[t] => ~mret'[t]]_vars

\* C4 witness: a thread that holds the Mutex got false from try_lock.
C4_Witness == \E t \in Threads : mholds[t] /\ mpc[t] = "try_ret" /\ ~mret[t]

\* C5: a failed try_lock has no side effect.  When try_lock returns false,
\* locked and waiters are as before, the caller goes straight to its return
\* (it is never suspended), and no other thread is resumed.
C5_FailedTryLockNoEffect ==
    [][\A t \in Threads :
        (mpc[t] = "try_cas" /\ mpc'[t] # "try_cas" /\ ~mret'[t]) =>
            /\ mutex' = mutex
            /\ mpc'[t] = "try_ret"
            /\ \A s \in Threads \ {t} : mpc'[s] = mpc[s]]_vars

\* C5 witness: try_lock of a thread that does not hold the Mutex failed
\* while other threads were counted as waiters.
C5_Witness ==
    \E t \in Threads :
        ~mholds[t] /\ mpc[t] = "try_ret" /\ ~mret[t] /\ mutex.locked /\ mutex.waiters > 0

\* C6: unlock of a Mutex whose locked cell is false panics, leaving locked
\* false and waiters unchanged and waking nobody; unlock of a Mutex whose
\* locked cell is true does not panic (now or later in the call).
C6_UnlockUnlockedPanics ==
    [][\A t \in Threads :
        /\ (mpc[t] = "unlock_cas" /\ mpc'[t] # "unlock_cas") =>
              IF ~mutex.locked
              THEN /\ mpc'[t] = "panic"
                   /\ mutex' = mutex
                   /\ \A s \in Threads \ {t} : mpc'[s] = mpc[s]
              ELSE mpc'[t] = "unlock_load"
        /\ (mpc[t] # "panic" /\ mpc'[t] = "panic") => mpc[t] = "unlock_cas"
        /\ mpc[t] = "panic" => mpc'[t] = "panic"]_vars

\* C6 witness: a thread panicked in unlock while another was counted as a waiter.
C6_Witness == \E t \in Threads : mpc[t] = "panic" /\ ~mutex.locked /\ mutex.waiters > 0

------------------------------------------------------------------------------
(* ReentrantMutex::try_lock, mutex.rs:114-126 *)

\* line 115-117: the compare-and-swap; on success `return true` at once
\* (the owner slot is not written on this path).
RMutex_try_lock_cas(t) ==
    /\ rpc[t] = "try_cas"
    /\ LET locked_prev == rmutex.locked IN
        /\ rmutex' = [rmutex EXCEPT !.locked = CasStored(locked_prev, FALSE, TRUE)]
        /\ IF ~locked_prev
           THEN /\ rret' = [rret EXCEPT ![t] = TRUE]
                /\ rpc' = [rpc EXCEPT ![t] = "try_ret"]
           ELSE /\ rret' = rret
                /\ rpc' = [rpc EXCEPT ![t] = "try_owner"]
    /\ UNCHANGED <<rdepth, notRMutex>>

RMutex_try_lock_owner_bug_any_owner(t) ==
    /\ rpc[t] = "try_owner"
    /\ IF rmutex.owner # NullThread
       THEN /\ rpc' = [rpc EXCEPT ![t] = "try_inc"]
            /\ rret' = rret
       ELSE /\ rpc' = [rpc EXCEPT ![t] = "try_ret"]
            /\ rret' = [rret EXCEPT ![t] = FALSE]
    /\ UNCHANGED <<rmutex, rdepth, notRMutex>>

\* line 120, 124: owner.load() == thread::current().thread, else `return false`
RMutex_try_lock_owner(t) ==
    /\ rpc[t] = "try_owner"
    /\ IF rmutex.owner = t
       THEN /\ rpc' = [rpc EXCEPT ![t] = "try_inc"]
            /\ rret' = rret
       ELSE /\ rpc' = [rpc EXCEPT ![t] = "try_ret"]
            /\ rret' = [rret EXCEPT ![t] = FALSE]
    /\ UNCHANGED <<rmutex, rdepth, notRMutex>>

\* line 121-122: reentrance_count += 1; return true
RMutex_try_lock_reenter(t) ==
    /\ rpc[t] = "try_inc"
    /\ rmutex' = [rmutex EXCEPT !.reentrance_count = @ + 1]
    /\ rret' = [rret EXCEPT ![t] = TRUE]
    /\ rpc' = [rpc EXCEPT ![t] = "try_ret"]
    /\ UNCHANGED <<rdepth, notRMutex>>

------------------------------------------------------------------------------
(* ReentrantMutex::lock, mutex.rs:128-144 *)

\* line 130-131, 134: the compare-and-swap
RMutex_lock_cas(t) ==
    /\ rpc[t] = "lock_cas"
    /\ LET locked_prev == rmutex.locked IN
        /\ rmutex' = [rmutex EXCEPT !.locked = CasStored(locked_prev, FALSE, TRUE)]
        /\ rpc' = [rpc EXCEPT ![t] = IF ~locked_prev THEN "lock_store" ELSE "lock_owner"]
    /\ UNCHANGED <<rret, rdepth, notRMutex>>

\* line 132-133: owner.store(thread::current().thread); break
RMutex_lock_store_owner(t) ==
    /\ rpc[t] = "lock_store"
    /\ rmutex' = [rmutex EXCEPT !.owner = t]
    /\ rpc' = [rpc EXCEPT ![t] = "lock_ret"]
    /\ UNCHANGED <<rret, rdepth, notRMutex>>

RMutex_lock_owner_bug_any_owner(t) ==
    /\ rpc[t] = "lock_owner"
    /\ rpc' = [rpc EXCEPT ![t] = IF rmutex.owner # NullThread THEN "lock_inc" ELSE "lock_add"]
    /\ UNCHANGED <<rmutex, rret, rdepth, notRMutex>>

\* line 134: owner.load() == thread::current().thread
RMutex_lock_owner(t) ==
    /\ rpc[t] = "lock_owner"
    /\ rpc' = [rpc EXCEPT ![t] = IF rmutex.owner = t THEN "lock_inc" ELSE "lock_add"]
    /\ UNCHANGED <<rmutex, rret, rdepth, notRMutex>>

\* line 135-136: reentrance_count += 1; break
RMutex_lock_reenter(t) ==
    /\ rpc[t] = "lock_inc"
    /\ rmutex' = [rmutex EXCEPT !.reentrance_count = @ + 1]
    /\ rpc' = [rpc EXCEPT ![t] = "lock_ret"]
    /\ UNCHANGED <<rret, rdepth, notRMutex>>

\* line 139: waiters.fetch_add(1)
RMutex_lock_fetch_add(t) ==
    /\ rpc[t] = "lock_add"
    /\ rmutex' = [rmutex EXCEPT !.waiters = @ + 1]
    /\ rpc' = [rpc EXCEPT ![t] = "lock_wait"]
    /\ UNCHANGED <<rret, rdepth, notRMutex>>

\* line 140-141: FUTEX_WAIT on the word at `locked`, with value 0
RMutex_lock_futex_wait(t) ==
    /\ rpc[t] = "lock_wait"
    /\ rpc' = [rpc EXCEPT ![t] =
                 IF FutexWord(rmutex.locked, rmutex.pad) = FUTEX_WAIT_VAL
                 THEN "lock_blocked" ELSE "lock_sub"]
    /\ UNCHANGED <<rmutex, rret, rdepth, notRMutex>>

\* FUTEX_WAIT returning without a wake
RMutex_lock_futex_interrupt(t) ==
    /\ rpc[t] = "lock_blocked"
    /\ rpc' = [rpc EXCEPT ![t] = "lock_sub"]
    /\ UNCHANGED <<rmutex, rret, rdepth, notRMutex>>

\* line 142: waiters.fetch_sub(1), then back to the top of the loop
RMutex_lock_fetch_sub(t) ==
    /\ rpc[t] = "lock_sub"
    /\ rmutex' = [rmutex EXCEPT !.waiters = @ - 1]
    /\ rpc' = [rpc EXCEPT ![t] = "lock_cas"]
    /\ UNCHANGED <<rret, rdepth, notRMutex>>

------------------------------------------------------------------------------
(* ReentrantMutex::unlock, mutex.rs:146-170 *)

RMutex_unlock_owner_bug_no_check(t) ==
    /\ rpc[t] = "unlock_owner"
    /\ rpc' = [rpc EXCEPT ![t] = "unlock_count"]
    /\ UNCHANGED <<rmutex, rret, rdepth, notRMutex>>

\* line 147-149: owner.load() != thread::current() panics
RMutex_unlock_owner(t) ==
    /\ rpc[t] = "unlock_owner"
    /\ rpc' = [rpc EXCEPT ![t] = IF rmutex.owner # t THEN "panic" ELSE "unlock_count"]
    /\ UNCHANGED <<rmutex, rret, rdepth, notRMutex>>

RMutex_unlock_count_bug_always_release(t) ==
    /\ rpc[t] = "unlock_count"
    /\ rpc' = [rpc EXCEPT ![t] = "unlock_clear"]
    /\ UNCHANGED <<rmutex, rret, rdepth, notRMutex>>

\* line 151, 167: reentrance_count == 0
RMutex_unlock_count(t) ==
    /\ rpc[t] = "unlock_count"
    /\ rpc' = [rpc EXCEPT ![t] =
                 IF rmutex.reentrance_count = 0 THEN "unlock_clear" ELSE "unlock_dec"]
    /\ UNCHANGED <<rmutex, rret, rdepth, notRMutex>>

\* line 168: reentrance_count -= 1
RMutex_unlock_dec(t) ==
    /\ rpc[t] = "unlock_dec"
    /\ rmutex' = [rmutex EXCEPT !.reentrance_count = @ - 1]
    /\ rpc' = [rpc EXCEPT ![t] = "unlock_ret"]
    /\ UNCHANGED <<rret, rdepth, notRMutex>>

RMutex_unlock_clear_owner_bug_keeps_owner(t) ==
    /\ rpc[t] = "unlock_clear"
    /\ rpc' = [rpc EXCEPT ![t] = "unlock_cas"]
    /\ UNCHANGED <<rmutex, rret, rdepth, notRMutex>>

\* line 153: owner.store(ptr::null_mut())
RMutex_unlock_clear_owner(t) ==
    /\ rpc[t] = "unlock_clear"
    /\ rmutex' = [rmutex EXCEPT !.owner = NullThread]
    /\ rpc' = [rpc EXCEPT ![t] = "unlock_cas"]
    /\ UNCHANGED <<rret, rdepth, notRMutex>>

\* line 155-156, 164-166: the compare-and-swap; panic!("mutex is not locked")
RMutex_unlock_cas(t) ==
    /\ rpc[t] = "unlock_cas"
    /\ LET locked_prev == rmutex.locked IN
        /\ rmutex' = [rmutex EXCEPT !.locked = CasStored(locked_prev, TRUE, FALSE)]
        /\ rpc' = [rpc EXCEPT ![t] = IF locked_prev THEN "unlock_load" ELSE "panic"]
    /\ UNCHANGED <<rret, rdepth, notRMutex>>

\* line 157: waiters.load() != 0
RMutex_unlock_load_waiters(t) ==
    /\ rpc[t] = "unlock_load"
    /\ rpc' = [rpc EXCEPT ![t] = IF rmutex.waiters # 0 THEN "unlock_wake" ELSE "unlock_ret"]
    /\ UNCHANGED <<rmutex, rret, rdepth, notRMutex>>

\* line 161-162: FUTEX_WAKE with count 1
RMutex_unlock_futex_wake(t) ==
    /\ rpc[t] = "unlock_wake"
    /\ LET blocked == {s \in Threads : rpc[s] = "lock_blocked"} IN
        IF blocked = {}
        THEN rpc' = [rpc EXCEPT ![t] = "unlock_ret"]
        ELSE \E s \in blocked :
                rpc' = [rpc EXCEPT ![t] = "unlock_ret", ![s] = "lock_sub"]
    /\ UNCHANGED <<rmutex, rret, rdepth, notRMutex>>

\* The steps of thread t inside lock, try_lock and unlock.
RMutexStep(t) ==
    \/ RMutex_try_lock_cas(t)
    \/ RMutex_try_lock_owner(t)
    \/ RMutex_try_lock_reenter(t)
    \/ RMutex_lock_cas(t)
    \/ RMutex_lock_store_owner(t)
    \/ RMutex_lock_owner(t)
    \/ RMutex_lock_reenter(t)
    \/ RMutex_lock_fetch_add(t)
    \/ RMutex_lock_futex_wait(t)
    \/ RMutex_lock_fetch_sub(t)
    \/ RMutex_unlock_owner(t)
    \/ RMutex_unlock_count(t)
    \/ RMutex_unlock_dec(t)
    \/ RMutex_unlock_clear_owner(t)
    \/ RMutex_unlock_cas(t)
    \/ RMutex_unlock_load_waiters(t)
    \/ RMutex_unlock_futex_wake(t)

------------------------------------------------------------------------------
(* Callers of the ReentrantMutex: any thread may call lock or try_lock     *)
(* when it is not inside a call, and unlock to match one of its own        *)
(* earlier successful lock or try_lock calls.                              *)

RCallLock(t) ==
    /\ rpc[t] = "idle" /\ rdepth[t] < MaxDepth
    /\ rpc' = [rpc EXCEPT ![t] = "lock_cas"]
    /\ UNCHANGED <<rmutex, rret, rdepth, notRMutex>>

RCallTryLock(t) ==
    /\ rpc[t] = "idle" /\ rdepth[t] < MaxDepth
    /\ rpc' = [rpc EXCEPT ![t] = "try_cas"]
    /\ UNCHANGED <<rmutex, rret, rdepth, notRMutex>>

RCallUnlock(t) ==
    /\ rpc[t] = "idle" /\ rdepth[t] > 0
    /\ rpc' = [rpc EXCEPT ![t] = "unlock_owner"]
    /\ rdepth' = [rdepth EXCEPT ![t] = @ - 1]
    /\ UNCHANGED <<rmutex, rret, notRMutex>>

RLockReturn(t) ==
    /\ rpc[t] = "lock_ret"
    /\ rpc' = [rpc EXCEPT ![t] = "idle"]
    /\ rdepth' = [rdepth EXCEPT ![t] = @ + 1]
    /\ UNCHANGED <<rmutex, rret, notRMutex>>

RTryLockReturn(t) ==
    /\ rpc[t] = "try_ret"
    /\ rpc' = [rpc EXCEPT ![t] = "idle"]
    /\ rdepth' = [rdepth EXCEPT ![t] = IF rret[t] THEN @ + 1 ELSE @]
    /\ rret' = [rret EXCEPT ![t] = FALSE]
    /\ UNCHANGED <<rmutex, notRMutex>>

RUnlockReturn(t) ==
    /\ rpc[t] = "unlock_ret"
    /\ rpc' = [rpc EXCEPT ![t] = "idle"]
    /\ UNCHANGED <<rmutex, rret, rdepth, notRMutex>>

RMutexClient(t) ==
    \/ RCallLock(t)
    \/ RCallTryLock(t)
    \/ RCallUnlock(t)
    \/ RLockReturn(t)
    \/ RTryLockReturn(t)
    \/ RUnlockReturn(t)

NextRMutex ==
    \E t \in Threads :
        \/ RMutexStep(t)
        \/ RMutex_lock_futex_interrupt(t)
        \/ RMutexClient(t)

\* Callers that unlock only to match their own successful acquisitions.
SpecRMutex == Init /\ [][NextRMutex]_vars

------------------------------------------------------------------------------
(* Properties of the ReentrantMutex *)

RInUnlock(t) ==
    rpc[t] \in {"unlock_owner", "unlock_count", "unlock_dec", "unlock_clear", "unlock_cas"}

\* Thread t is between a successful acquire and the release of its matching
\* unlocks: it has unmatched successful calls, or the call that acquires or
\* releases is in progress.
RAcquired(t) ==
    \/ rdepth[t] > 0
    \/ rpc[t] \in {"lock_store", "lock_inc", "lock_ret", "try_inc"}
    \/ (rpc[t] = "try_ret" /\ rret[t])
    \/ RInUnlock(t)

\* C7: reentrancy.  A thread that holds the ReentrantMutex (first hold from
\* lock or from try_lock) and calls lock or try_lock again succeeds: it does
\* not enter the wait path of lock, and its try_lock does not return false.
C7_ReentrantAcquireSucceeds ==
    \A t \in Threads :
        rdepth[t] >= 1 =>
            /\ rpc[t] \notin {"lock_add", "lock_wait", "lock_blocked", "lock_sub"}
            /\ ~(rpc[t] = "try_ret" /\ ~rret[t])

\* C8: the lock stays held until the matching number of unlocks.  An unlock
\* that leaves its caller with holds still to release only decrements
\* reentrance_count (locked stays true, owner stays the caller, nobody is
\* woken, no other thread's try_lock returns true); the unlock matching the
\* caller's first hold sets locked to false and owner to null.
C8_HeldUntilMatchingUnlock ==
    [][\A t \in Threads :
        (RInUnlock(t) /\ rpc'[t] # rpc[t]) =>
            IF rdepth[t] >= 1
            THEN /\ rpc'[t] \in {"unlock_count", "unlock_dec", "unlock_ret"}
                 /\ rmutex'.locked /\ rmutex'.owner = t /\ rmutex'.waiters = rmutex.waiters
                 /\ rpc'[t] = "unlock_ret" =>
                        rmutex'.reentrance_count = rmutex.reentrance_count - 1
                 /\ \A s \in Threads \ {t} :
                        rpc'[s] = rpc[s] /\ ~(rpc[s] = "try_ret" /\ rret[s])
            ELSE /\ rpc'[t] \in {"unlock_count", "unlock_clear", "unlock_cas", "unlock_load"}
                 /\ rpc'[t] = "unlock_load" =>
                        (~rmutex'.locked /\ rmutex'.owner = NullThread)]_vars

\* C9: mutual exclusion.  At most one thread at a time has successful
\* acquisitions not yet released; while it has, no other thread gets true
\* from try_lock or returns from lock.
C9_RMutualExclusion == Cardinality({t \in Threads : RAcquired(t)}) <= 1

\* C9 witness: a thread holds the lock twice while another thread's try_lock
\* has returned false and a third is in the wait path of lock().
C9_Witness ==
    \E t, s, u \in Threads :
        /\ rdepth[t] = 2 /\ rmutex.owner = t /\ rmutex.reentrance_count = 1
        /\ s # t /\ rpc[s] = "try_ret" /\ ~rret[s]
        /\ u # t /\ rpc[u] = "lock_sub"

\* C10: fatal paths are reached only on contract violations.  When every
\* unlock matches an earlier successful lock or try_lock of the same thread,
\* no thread panics.
C10_NoPanicOnValidUse == \A t \in Threads : rpc[t] # "panic"

------------------------------------------------------------------------------
(* Callers that also call ReentrantMutex::unlock without a hold to match.  *)

\* Misuse: unlock by a thread with no successful acquisition left to match.
RCallUnlockNotHeld(t) ==
    /\ rpc[t] = "idle" /\ rdepth[t] = 0
    /\ rpc' = [rpc EXCEPT ![t] = "unlock_owner"]
    /\ UNCHANGED <<rmutex, rret, rdepth, notRMutex>>

NextRMutexMisuse ==
    \E t \in Threads :
        \/ RMutexStep(t)
        \/ RMutex_lock_futex_interrupt(t)
        \/ RMutexClient(t)
        \/ RCallUnlockNotHeld(t)

SpecRMutexMisuse == Init /\ [][NextRMutexMisuse]_vars

\* C11: unlock by a thread that is not the recorded owner (another thread
\* holds the lock, or nobody does) panics and leaves locked, owner,
\* reentrance_count and waiters unchanged, waking nobody; a panicked thread
\* takes no further step.
C11_UnlockByNonOwnerPanics ==
    [][\A t \in Threads :
        /\ (rpc[t] = "unlock_owner" /\ rpc'[t] # "unlock_owner" /\ rmutex.owner # t) =>
              /\ rpc'[t] = "panic"
              /\ rmutex' = rmutex
              /\ \A s \in Threads \ {t} : rpc'[s] = rpc[s]
        /\ rpc[t] = "panic" => rpc'[t] = "panic"]_vars

\* C11 witness: a thread panicked in unlock while another thread is the
\* recorded owner, holds the lock twice, and a third is counted as a waiter.
C11_Witness ==
    \E t, s \in Threads :
        /\ t # s /\ rpc[t] = "panic" /\ rdepth[t] = 0
        /\ rmutex.owner = s /\ rdepth[s] = 2 /\ rmutex.locked /\ rmutex.waiters > 0

------------------------------------------------------------------------------
(* examples/mutex.rs, test_reentrant_mutex: each thread, ITERATIONS times: *)
(* lock, *data += 1, lock again, *data2 += 1, try_lock (which must         *)
(* succeed), then the three guards are dropped (three unlocks).            *)

rmutexVars == <<rmutex, rpc, rret, rdepth>>
mutexVars == <<mutex, mpc, mret, mholds>>

\* line 59, 62: data.lock()
RTestCallLock(t) ==
    /\ t \in TestThreads
    /\ rpc[t] = "idle" /\ iter[t] < ITERATIONS
    /\ rpc' = [rpc EXCEPT ![t] = "lock_cas"]
    /\ UNCHANGED <<rmutex, rret, rdepth, notRMutex>>

\* line 59-60, 62-63: lock() returned; the read of `*data += 1`
RTestRead(t) ==
    /\ rpc[t] = "lock_ret"
    /\ rdepth' = [rdepth EXCEPT ![t] = @ + 1]
    /\ local' = [local EXCEPT ![t] = data]
    /\ rpc' = [rpc EXCEPT ![t] = "test_write"]
    /\ UNCHANGED <<rmutex, rret, data, iter, mutexVars, rwVars>>

\* line 60, 63: the write of `*data += 1`; then line 62: lock() again, or
\* line 65: try_lock()
RTestWrite(t) ==
    /\ rpc[t] = "test_write"
    /\ data' = local[t] + 1
    /\ rpc' = [rpc EXCEPT ![t] = IF rdepth[t] = 1 THEN "lock_cas" ELSE "try_cas"]
    /\ UNCHANGED <<rmutex, rret, rdepth, local, iter, mutexVars, rwVars>>

\* line 65-68: Err(_) => panic!("failed to lock reentrant mutex"); otherwise
\* the first of the three guards is dropped.
RTestCheck(t) ==
    /\ rpc[t] = "try_ret" /\ t \in TestThreads
    /\ IF rret[t]
       THEN rpc' = [rpc EXCEPT ![t] = "unlock_owner"] /\ UNCHANGED rdepth
       ELSE rpc' = [rpc EXCEPT ![t] = "panic"] /\ UNCHANGED rdepth
    /\ rret' = [rret EXCEPT ![t] = FALSE]
    /\ UNCHANGED <<rmutex, notRMutex>>

\* line 69: the next guard is dropped, or the round is over
RTestUnlocked(t) ==
    /\ rpc[t] = "unlock_ret" /\ t \in TestThreads
    /\ IF rdepth[t] > 0
       THEN /\ rdepth' = [rdepth EXCEPT ![t] = @ - 1]
            /\ rpc' = [rpc EXCEPT ![t] = "unlock_owner"]
            /\ UNCHANGED iter
       ELSE /\ iter' = [iter EXCEPT ![t] = @ + 1]
            /\ rpc' = [rpc EXCEPT ![t] = "idle"]
            /\ UNCHANGED rdepth
    /\ UNCHANGED <<rmutex, rret, data, local, mutexVars, rwVars>>

NextRMutexTest ==
    \E t \in Threads :
        \/ RMutexStep(t)
        \/ RMutex_lock_futex_interrupt(t)
        \/ RTestCallLock(t)
        \/ RTestRead(t)
        \/ RTestWrite(t)
        \/ RTestCheck(t)
        \/ RTestUnlocked(t)

SpecRMutexTest == Init /\ [][NextRMutexTest]_vars

\* line 74-76: every spawned thread was joined.
RTestFinished == \A t \in TestThreads : rpc[t] = "idle" /\ iter[t] = ITERATIONS

RInLock(t) ==
    rpc[t] \in {"lock_cas", "lock_store", "lock_owner", "lock_inc", "lock_add",
                "lock_wait", "lock_blocked", "lock_sub", "lock_ret"}

\* Increments of `data` thread t has completed: two per finished round, and
\* in its current round one once the first write is done, two after the second.
RWritesDone(t) ==
    2 * iter[t] + (IF rpc[t] = "idle" THEN 0
                   ELSE IF rpc[t] = "test_write" THEN rdepth[t] - 1
                   ELSE IF RInLock(t) THEN rdepth[t]
                   ELSE 2)

RECURSIVE RSumWrites(_)
RSumWrites(S) == IF S = {} THEN 0
                 ELSE LET t == CHOOSE x \in S : TRUE IN RWritesDone(t) + RSumWrites(S \ {t})

\* C12: no lost updates under nesting.  The guarded integer always equals
\* its initial value plus the increments completed so far, the nested
\* try_lock never fails, and once every thread of test_reentrant_mutex has
\* finished, the integer is the initial value plus 2 * NTHREADS * ITERATIONS.
C12_RNoLostUpdates ==
    /\ data = InitialData + RSumWrites(TestThreads)
    /\ \A t \in TestThreads : rpc[t] # "panic"
    /\ RTestFinished => data = InitialData + 2 * NTHREADS * ITERATIONS

\* C12 witness: all threads have finished.
C12_Witness == RTestFinished /\ data > InitialData

------------------------------------------------------------------------------
\* Every thread inside an operation keeps taking steps (a suspended thread
\* has none of its own), and a thread that holds the lock eventually calls
\* its outermost unlock.  Threads need not ask for the lock again, and
\* FUTEX_WAIT need not return spuriously.
RMutexFairness ==
    \A t \in Threads :
        /\ WF_vars(RMutexStep(t))
        /\ WF_vars(RLockReturn(t) \/ RTryLockReturn(t) \/ RUnlockReturn(t))
        /\ SF_vars(RCallUnlock(t) /\ rdepth[t] = 1)

SpecRMutexFair == Init /\ [][NextRMutex]_vars /\ RMutexFairness

RInLockWait(t) == rpc[t] \in {"lock_cas", "lock_owner", "lock_add", "lock_wait",
                              "lock_blocked", "lock_sub"}

\* C13: lock blocks only until the lock becomes available.  No thread stays
\* suspended in the wait call forever while the lock is free, and whenever
\* the lock is free with a thread inside lock(), it is eventually acquired.
C13_RLockEventuallyAcquires ==
    /\ \A t \in Threads : []<>(~(rpc[t] = "lock_blocked" /\ ~rmutex.locked))
    /\ (~rmutex.locked /\ \E t \in Threads : RInLockWait(t)) ~> rmutex.locked

------------------------------------------------------------------------------
(***************************************************************************)
(* RWLock, rwlock.rs:19-154.  `users` is 0 when free, RWLOCK_WRITER when    *)
(* write-locked, otherwise the number of read holds.  The futex word is the *)
(* `users` cell itself.                                                     *)
(***************************************************************************)

\* AtomicUsize::compare_and_swap(current, new): the value stored afterwards.
CasUsers(current, new) == IF rwlock.users = current THEN new ELSE rwlock.users

ReadBranch_bug_no_limit(users) ==
    IF users = RWLOCK_WRITER THEN "read_add"
    ELSE "read_cas"

\* read(), the branch at the top of its loop on the local `users`, rwlock.rs:50-59
ReadBranch(users) ==
    IF users = RWLOCK_WRITER THEN "read_add"
    ELSE IF users = RWLOCK_WRITER - 1 THEN "panic"
    ELSE "read_cas"

TryReadBranch_bug_fails_on_readers(users) ==
    IF users # 0 THEN "tryr_ret"
    ELSE "tryr_cas"

\* try_read(), the branch at the top of its loop, rwlock.rs:74-78
TryReadBranch(users) ==
    IF users = RWLOCK_WRITER THEN "tryr_ret"
    ELSE IF users = RWLOCK_WRITER - 1 THEN "panic"
    ELSE "tryr_cas"

ReadUnlockBranch_bug_no_checks(users) == "runlock_cas"

ReadUnlockBranch_bug_panics_on_last(users) ==
    IF users = RWLOCK_WRITER \/ users <= 1 THEN "panic" ELSE "runlock_cas"

\* read_unlock(), the two checks at the top of its loop, rwlock.rs:112-117
ReadUnlockBranch(users) ==
    IF users = RWLOCK_WRITER \/ users = 0 THEN "panic" ELSE "runlock_cas"

\* Threads the kernel holds suspended on the futex of the RWLock.
RWBlocked == {s \in Threads : wpc[s] \in {"read_blocked", "write_blocked"}}

\* Where a suspended thread continues when its FUTEX_WAIT returns.
RWResume(pc) == IF pc = "read_blocked" THEN "read_sub" ELSE "write_sub"

\* FUTEX_WAKE resuming the threads of W.
RWWake(t, W, next) ==
    wpc' = [s \in Threads |-> IF s = t THEN next
                              ELSE IF s \in W THEN RWResume(wpc[s]) ELSE wpc[s]]

\* read(): `users = self.users_raw().load(Acquire)`, rwlock.rs:47 and 56
RWLock_read_load(t) ==
    /\ wpc[t] = "read_load"
    /\ wusers' = [wusers EXCEPT ![t] = rwlock.users]
    /\ wpc' = [wpc EXCEPT ![t] = ReadBranch(rwlock.users)]
    /\ UNCHANGED <<rwlock, wret, rheld, wheld, notRWLock, test>>

RWLock_read_cas_bug_ignores_failure(t) ==
    /\ wpc[t] = "read_cas"
    /\ rwlock' = [rwlock EXCEPT !.users = CasUsers(wusers[t], wusers[t] + 1)]
    /\ wpc' = [wpc EXCEPT ![t] = "read_ret"]
    /\ wusers' = [wusers EXCEPT ![t] = 0]
    /\ UNCHANGED <<wret, rheld, wheld, notRWLock, test>>

\* read(): compare_and_swap(users, users + 1), rwlock.rs:60-65
RWLock_read_cas(t) ==
    /\ wpc[t] = "read_cas"
    /\ rwlock' = [rwlock EXCEPT !.users = CasUsers(wusers[t], wusers[t] + 1)]
    /\ IF rwlock.users = wusers[t]
         THEN /\ wpc' = [wpc EXCEPT ![t] = "read_ret"]
              /\ wusers' = [wusers EXCEPT ![t] = 0]
         ELSE /\ wpc' = [wpc EXCEPT ![t] = ReadBranch(rwlock.users)]
              /\ wusers' = [wusers EXCEPT ![t] = rwlock.users]
    /\ UNCHANGED <<wret, rheld, wheld, notRWLock, test>>

\* read(): waiters.fetch_add(1), rwlock.rs:51
RWLock_read_fetch_add(t) ==
    /\ wpc[t] = "read_add"
    /\ rwlock' = [rwlock EXCEPT !.waiters = (@ + 1) % (USIZE_MAX + 1)]
    /\ wpc' = [wpc EXCEPT ![t] = "read_wait"]
    /\ UNCHANGED <<wusers, wret, rheld, wheld, notRWLock, test>>

RWLock_read_futex_wait_bug_no_check(t) ==
    /\ wpc[t] = "read_wait"
    /\ wpc' = [wpc EXCEPT ![t] = "read_blocked"]
    /\ wusers' = [wusers EXCEPT ![t] = 0]
    /\ UNCHANGED <<rwlock, wret, rheld, wheld, notRWLock, test>>

\* read(): FUTEX_WAIT on `users` with the local `users` as value, rwlock.rs:53.
\* The kernel suspends the caller only if the cell still holds that value.
RWLock_read_futex_wait(t) ==
    /\ wpc[t] = "read_wait"
    /\ wpc' = [wpc EXCEPT ![t] = IF rwlock.users = wusers[t] THEN "read_blocked"
                                 ELSE "read_sub"]
    /\ wusers' = [wusers EXCEPT ![t] = 0]
    /\ UNCHANGED <<rwlock, wret, rheld, wheld, notRWLock, test>>

\* FUTEX_WAIT may return without a wake (signal, spurious wake-up).
RWLock_read_futex_interrupt(t) ==
    /\ wpc[t] = "read_blocked"
    /\ wpc' = [wpc EXCEPT ![t] = "read_sub"]
    /\ UNCHANGED <<rwlock, wusers, wret, rheld, wheld, notRWLock, test>>

\* read(): waiters.fetch_sub(1), rwlock.rs:54; the reload of line 56 follows
RWLock_read_fetch_sub(t) ==
    /\ wpc[t] = "read_sub"
    /\ rwlock' = [rwlock EXCEPT !.waiters = (@ - 1) % (USIZE_MAX + 1)]
    /\ wpc' = [wpc EXCEPT ![t] = "read_load"]
    /\ UNCHANGED <<wusers, wret, rheld, wheld, notRWLock, test>>

\* try_read(): `users = self.users_raw().load(Acquire)`, rwlock.rs:71-78
RWLock_try_read_load(t) ==
    /\ wpc[t] = "tryr_load"
    /\ wpc' = [wpc EXCEPT ![t] = TryReadBranch(rwlock.users)]
    /\ wusers' = [wusers EXCEPT ![t] = IF rwlock.users = RWLOCK_WRITER THEN 0
                                       ELSE rwlock.users]
    /\ wret' = [wret EXCEPT ![t] = FALSE]
    /\ UNCHANGED <<rwlock, rheld, wheld, notRWLock, test>>

\* try_read(): compare_and_swap(users, users + 1), rwlock.rs:79-84
RWLock_try_read_cas(t) ==
    /\ wpc[t] = "tryr_cas"
    /\ rwlock' = [rwlock EXCEPT !.users = CasUsers(wusers[t], wusers[t] + 1)]
    /\ IF rwlock.users = wusers[t]
         THEN /\ wpc' = [wpc EXCEPT ![t] = "tryr_ret"]
              /\ wusers' = [wusers EXCEPT ![t] = 0]
              /\ wret' = [wret EXCEPT ![t] = TRUE]
         ELSE /\ wpc' = [wpc EXCEPT ![t] = TryReadBranch(rwlock.users)]
              /\ wusers' = [wusers EXCEPT ![t] = IF rwlock.users = RWLOCK_WRITER THEN 0
                                                 ELSE rwlock.users]
              /\ wret' = [wret EXCEPT ![t] = FALSE]
    /\ UNCHANGED <<rheld, wheld, notRWLock, test>>

RWLock_write_cas_bug_no_check(t) ==
    /\ wpc[t] = "write_cas"
    /\ rwlock' = [rwlock EXCEPT !.users = RWLOCK_WRITER]
    /\ wusers' = [wusers EXCEPT ![t] = rwlock.users]
    /\ wpc' = [wpc EXCEPT ![t] = "write_ret"]
    /\ UNCHANGED <<wret, rheld, wheld, notRWLock, test>>

\* write(): compare_and_swap(0, RWLOCK_WRITER), rwlock.rs:91-94
RWLock_write_cas(t) ==
    /\ wpc[t] = "write_cas"
    /\ rwlock' = [rwlock EXCEPT !.users = CasUsers(0, RWLOCK_WRITER)]
    /\ wusers' = [wusers EXCEPT ![t] = rwlock.users]
    /\ wpc' = [wpc EXCEPT ![t] = IF rwlock.users = 0 THEN "write_ret" ELSE "write_add"]
    /\ UNCHANGED <<wret, rheld, wheld, notRWLock, test>>

\* write(): waiters.fetch_add(1), rwlock.rs:96
RWLock_write_fetch_add(t) ==
    /\ wpc[t] = "write_add"
    /\ rwlock' = [rwlock EXCEPT !.waiters = (@ + 1) % (USIZE_MAX + 1)]
    /\ wpc' = [wpc EXCEPT ![t] = "write_wait"]
    /\ UNCHANGED <<wusers, wret, rheld, wheld, notRWLock, test>>

\* write(): FUTEX_WAIT on `users` with `users_prev` as value, rwlock.rs:98
RWLock_write_futex_wait(t) ==
    /\ wpc[t] = "write_wait"
    /\ wpc' = [wpc EXCEPT ![t] = IF rwlock.users = wusers[t] THEN "write_blocked"
                                 ELSE "write_sub"]
    /\ wusers' = [wusers EXCEPT ![t] = 0]
    /\ UNCHANGED <<rwlock, wret, rheld, wheld, notRWLock, test>>

\* FUTEX_WAIT may return without a wake (signal, spurious wake-up).
RWLock_write_futex_interrupt(t) ==
    /\ wpc[t] = "write_blocked"
    /\ wpc' = [wpc EXCEPT ![t] = "write_sub"]
    /\ UNCHANGED <<rwlock, wusers, wret, rheld, wheld, notRWLock, test>>

RWLock_write_fetch_sub_bug_no_retry(t) ==
    /\ wpc[t] = "write_sub"
    /\ rwlock' = [rwlock EXCEPT !.waiters = (@ - 1) % (USIZE_MAX + 1)]
    /\ wpc' = [wpc EXCEPT ![t] = "write_ret"]
    /\ UNCHANGED <<wusers, wret, rheld, wheld, notRWLock, test>>

\* write(): waiters.fetch_sub(1), rwlock.rs:99; the loop retries the compare_and_swap
RWLock_write_fetch_sub(t) ==
    /\ wpc[t] = "write_sub"
    /\ rwlock' = [rwlock EXCEPT !.waiters = (@ - 1) % (USIZE_MAX + 1)]
    /\ wpc' = [wpc EXCEPT ![t] = "write_cas"]
    /\ UNCHANGED <<wusers, wret, rheld, wheld, notRWLock, test>>

RWLock_try_write_bug_always_true(t) ==
    /\ wpc[t] = "tryw_cas"
    /\ rwlock' = [rwlock EXCEPT !.users = CasUsers(0, RWLOCK_WRITER)]
    /\ wret' = [wret EXCEPT ![t] = TRUE]
    /\ wpc' = [wpc EXCEPT ![t] = "tryw_ret"]
    /\ UNCHANGED <<wusers, rheld, wheld, notRWLock, test>>

\* try_write(), rwlock.rs:103-106
RWLock_try_write(t) ==
    /\ wpc[t] = "tryw_cas"
    /\ rwlock' = [rwlock EXCEPT !.users = CasUsers(0, RWLOCK_WRITER)]
    /\ wret' = [wret EXCEPT ![t] = (rwlock.users = 0)]
    /\ wpc' = [wpc EXCEPT ![t] = "tryw_ret"]
    /\ UNCHANGED <<wusers, rheld, wheld, notRWLock, test>>

\* read_unlock(): `users = self.users_raw().load(..)` and the two checks, rwlock.rs:109-117
RWLock_read_unlock_load(t) ==
    /\ wpc[t] = "runlock_load"
    /\ wusers' = [wusers EXCEPT ![t] = rwlock.users]
    /\ wpc' = [wpc EXCEPT ![t] = ReadUnlockBranch(rwlock.users)]
    /\ UNCHANGED <<rwlock, wret, rheld, wheld, notRWLock, test>>

\* read_unlock(): compare_and_swap(users, users - 1), rwlock.rs:118-131.
\* `users - 1 == 0 && ..` reads waiters only when the count reached 0.
RWLock_read_unlock_cas(t) ==
    /\ wpc[t] = "runlock_cas"
    /\ rwlock' = [rwlock EXCEPT !.users = CasUsers(wusers[t], wusers[t] - 1)]
    /\ IF rwlock.users = wusers[t]
         THEN /\ wpc' = [wpc EXCEPT ![t] = IF wusers[t] - 1 = 0 THEN "runlock_waiters"
                                           ELSE "runlock_ret"]
              /\ wusers' = [wusers EXCEPT ![t] = 0]
         ELSE /\ wpc' = [wpc EXCEPT ![t] = ReadUnlockBranch(rwlock.users)]
              /\ wusers' = [wusers EXCEPT ![t] = rwlock.users]
    /\ UNCHANGED <<wret, rheld, wheld, notRWLock, test>>

RWLock_read_unlock_load_waiters_bug_no_wake(t) ==
    /\ wpc[t] = "runlock_waiters"
    /\ wpc' = [wpc EXCEPT ![t] = "runlock_ret"]
    /\ UNCHANGED <<rwlock, wusers, wret, rheld, wheld, notRWLock, test>>

\* read_unlock(): waiters.load() != 0, rwlock.rs:120
RWLock_read_unlock_load_waiters(t) ==
    /\ wpc[t] = "runlock_waiters"
    /\ wpc' = [wpc EXCEPT ![t] = IF rwlock.waiters # 0 THEN "runlock_wake" ELSE "runlock_ret"]
    /\ UNCHANGED <<rwlock, wusers, wret, rheld, wheld, notRWLock, test>>

\* read_unlock(): FUTEX_WAKE of one waiter, rwlock.rs:127
RWLock_read_unlock_futex_wake(t) ==
    /\ wpc[t] = "runlock_wake"
    /\ \/ \E s \in RWBlocked : RWWake(t, {s}, "runlock_ret")
       \/ RWBlocked = {} /\ RWWake(t, {}, "runlock_ret")
    /\ UNCHANGED <<rwlock, wusers, wret, rheld, wheld, notRWLock, test>>

RWLock_write_unlock_cas_bug_plain_store(t) ==
    /\ wpc[t] = "wunlock_cas"
    /\ rwlock' = [rwlock EXCEPT !.users = 0]
    /\ wpc' = [wpc EXCEPT ![t] = "wunlock_waiters"]
    /\ UNCHANGED <<wusers, wret, rheld, wheld, notRWLock, test>>

\* write_unlock(): compare_and_swap(RWLOCK_WRITER, 0), rwlock.rs:136-149.
\* Where the call ends fatally, `users_prev` keeps the value it observed.
RWLock_write_unlock_cas(t) ==
    /\ wpc[t] = "wunlock_cas"
    /\ rwlock' = [rwlock EXCEPT !.users = CasUsers(RWLOCK_WRITER, 0)]
    /\ wpc' = [wpc EXCEPT ![t] = IF rwlock.users = RWLOCK_WRITER THEN "wunlock_waiters"
                                 ELSE "panic"]
    /\ wusers' = [wusers EXCEPT ![t] = IF rwlock.users = RWLOCK_WRITER THEN 0
                                       ELSE rwlock.users]
    /\ UNCHANGED <<wret, rheld, wheld, notRWLock, test>>

\* write_unlock(): waiters.load() != 0, rwlock.rs:138
RWLock_write_unlock_load_waiters(t) ==
    /\ wpc[t] = "wunlock_waiters"
    /\ wpc' = [wpc EXCEPT ![t] = IF rwlock.waiters # 0 THEN "wunlock_wake" ELSE "wunlock_ret"]
    /\ UNCHANGED <<rwlock, wusers, wret, rheld, wheld, notRWLock, test>>

RWLock_write_unlock_futex_wake_bug_wakes_one(t) ==
    /\ wpc[t] = "wunlock_wake"
    /\ \/ \E s \in RWBlocked : RWWake(t, {s}, "wunlock_ret")
       \/ RWBlocked = {} /\ RWWake(t, {}, "wunlock_ret")
    /\ UNCHANGED <<rwlock, wusers, wret, rheld, wheld, notRWLock, test>>

\* write_unlock(): FUTEX_WAKE of isize::MAX waiters, rwlock.rs:145
RWLock_write_unlock_futex_wake(t) ==
    /\ wpc[t] = "wunlock_wake"
    /\ RWWake(t, RWBlocked, "wunlock_ret")
    /\ UNCHANGED <<rwlock, wusers, wret, rheld, wheld, notRWLock, test>>

\* One step of thread t inside read, write, read_unlock or write_unlock.
RWLockBlockingStep(t) ==
    \/ RWLock_read_load(t) \/ RWLock_read_cas(t) \/ RWLock_read_fetch_add(t)
    \/ RWLock_read_futex_wait(t) \/ RWLock_read_fetch_sub(t)
    \/ RWLock_write_cas(t) \/ RWLock_write_fetch_add(t)
    \/ RWLock_write_futex_wait(t) \/ RWLock_write_fetch_sub(t)
    \/ RWLock_read_unlock_load(t) \/ RWLock_read_unlock_cas(t)
    \/ RWLock_read_unlock_load_waiters(t) \/ RWLock_read_unlock_futex_wake(t)
    \/ RWLock_write_unlock_cas(t) \/ RWLock_write_unlock_load_waiters(t)
    \/ RWLock_write_unlock_futex_wake(t)

\* One step of thread t inside an RWLock operation other than try_write.
RWLockStepNoTryWrite(t) ==
    RWLockBlockingStep(t) \/ RWLock_try_read_load(t) \/ RWLock_try_read_cas(t)

\* One step of thread t inside an RWLock operation.
RWLockStep(t) == RWLockStepNoTryWrite(t) \/ RWLock_try_write(t)

RWLockInterrupt(t) == RWLock_read_futex_interrupt(t) \/ RWLock_write_futex_interrupt(t)

------------------------------------------------------------------------------
(***************************************************************************)
(* Callers of the RWLock.  rheld and wheld record what a thread holds: a    *)
(* hold starts when the acquiring call returns and ends when the matching   *)
(* unlock is called.                                                        *)
(***************************************************************************)

\* Thread t is inside read() or try_read().
WInReadCall(t) == wpc[t] \in {"read_load", "read_cas", "read_add", "read_wait",
                              "read_blocked", "read_sub", "read_ret",
                              "tryr_load", "tryr_cas", "tryr_ret"}

RECURSIVE ReadsClaimed(_)
\* Read holds of the threads of S, counting the read calls still in progress.
ReadsClaimed(S) ==
    IF S = {} THEN 0
    ELSE LET t == CHOOSE x \in S : TRUE
         IN rheld[t] + (IF WInReadCall(t) THEN 1 ELSE 0) + ReadsClaimed(S \ {t})

\* Fewer than RWLOCK_WRITER - 1 readers are ever active.
ReaderRoom == ReadsClaimed(Threads) + 1 < RWLOCK_WRITER - 1

WCall(t, pc) ==
    /\ wpc[t] = "idle"
    /\ wpc' = [wpc EXCEPT ![t] = pc]
    /\ UNCHANGED <<rwlock, wusers, wret, rheld, wheld, notRWLock, test>>

\* read() by a thread that holds no write lock (it would wait for itself).
WCallRead(t) == ~wheld[t] /\ rheld[t] < MaxReads /\ ReaderRoom /\ WCall(t, "read_load")

WCallTryRead(t) == rheld[t] < MaxReads /\ ReaderRoom /\ WCall(t, "tryr_load")

\* write() by a thread that holds nothing (it would wait for itself).
WCallWrite(t) == ~wheld[t] /\ rheld[t] = 0 /\ WCall(t, "write_cas")

WCallTryWrite(t) == WCall(t, "tryw_cas")

\* read_unlock() matching an earlier read()/try_read() of the same thread.
WCallReadUnlock(t) ==
    /\ wpc[t] = "idle" /\ rheld[t] > 0
    /\ wpc' = [wpc EXCEPT ![t] = "runlock_load"]
    /\ rheld' = [rheld EXCEPT ![t] = @ - 1]
    /\ UNCHANGED <<rwlock, wusers, wret, wheld, notRWLock, test>>

\* write_unlock() matching an earlier write()/try_write() of the same thread.
WCallWriteUnlock(t) ==
    /\ wpc[t] = "idle" /\ wheld[t]
    /\ wpc' = [wpc EXCEPT ![t] = "wunlock_cas"]
    /\ wheld' = [wheld EXCEPT ![t] = FALSE]
    /\ UNCHANGED <<rwlock, wusers, wret, rheld, notRWLock, test>>

\* read() returns: the caller holds one more read lock.
WReadReturn(t) ==
    /\ wpc[t] = "read_ret"
    /\ wpc' = [wpc EXCEPT ![t] = "idle"]
    /\ rheld' = [rheld EXCEPT ![t] = @ + 1]
    /\ UNCHANGED <<rwlock, wusers, wret, wheld, notRWLock, test>>

\* try_read() returns: the caller holds one more read lock if it returned true.
WTryReadReturn(t) ==
    /\ wpc[t] = "tryr_ret"
    /\ wpc' = [wpc EXCEPT ![t] = "idle"]
    /\ rheld' = [rheld EXCEPT ![t] = IF wret[t] THEN @ + 1 ELSE @]
    /\ wret' = [wret EXCEPT ![t] = FALSE]
    /\ UNCHANGED <<rwlock, wusers, wheld, notRWLock, test>>

\* write() returns: the caller holds the write lock.
WWriteReturn(t) ==
    /\ wpc[t] = "write_ret"
    /\ wpc' = [wpc EXCEPT ![t] = "idle"]
    /\ wheld' = [wheld EXCEPT ![t] = TRUE]
    /\ wusers' = [wusers EXCEPT ![t] = 0]
    /\ UNCHANGED <<rwlock, wret, rheld, notRWLock, test>>

\* try_write() returns: the caller holds the write lock if it returned true.
WTryWriteReturn(t) ==
    /\ wpc[t] = "tryw_ret"
    /\ wpc' = [wpc EXCEPT ![t] = "idle"]
    /\ wheld' = [wheld EXCEPT ![t] = wheld[t] \/ wret[t]]
    /\ wret' = [wret EXCEPT ![t] = FALSE]
    /\ UNCHANGED <<rwlock, wusers, rheld, notRWLock, test>>

WUnlockReturn(t) ==
    /\ wpc[t] \in {"runlock_ret", "wunlock_ret"}
    /\ wpc' = [wpc EXCEPT ![t] = "idle"]
    /\ UNCHANGED <<rwlock, wusers, wret, rheld, wheld, notRWLock, test>>

RWLockReturn(t) ==
    \/ WReadReturn(t) \/ WTryReadReturn(t) \/ WWriteReturn(t) \/ WTryWriteReturn(t)
    \/ WUnlockReturn(t)

RWLockClient(t) ==
    \/ WCallRead(t) \/ WCallTryRead(t) \/ WCallWrite(t) \/ WCallTryWrite(t)
    \/ WCallReadUnlock(t) \/ WCallWriteUnlock(t)
    \/ RWLockReturn(t)

NextRWLock == \E t \in Threads : RWLockStep(t) \/ RWLockInterrupt(t) \/ RWLockClient(t)

\* Threads that unlock only what they hold.
SpecRWLock == Init /\ [][NextRWLock]_vars

\* Thread t holds the write lock (from the successful compare_and_swap on).
WriteHolds(t) ==
    \/ wheld[t]
    \/ wpc[t] = "write_ret"
    \/ wpc[t] = "tryw_ret" /\ wret[t]

\* Read locks thread t holds (from the successful compare_and_swap on).
ReadHolds(t) ==
    rheld[t] + (IF wpc[t] = "read_ret" \/ (wpc[t] = "tryr_ret" /\ wret[t]) THEN 1 ELSE 0)

\* C14: readers XOR one writer.  A thread that holds the write lock holds no
\* read lock itself, and no other thread holds the lock in either mode.
C14_ReadersXorWriter ==
    \A t \in Threads :
        WriteHolds(t) =>
            /\ ReadHolds(t) = 0
            /\ \A s \in Threads \ {t} : ~WriteHolds(s) /\ ReadHolds(s) = 0

C14_Witness ==
    \E t, s, u \in Threads :
        /\ wheld[t] /\ rwlock.users = RWLOCK_WRITER
        /\ wpc[s] = "read_blocked" /\ wpc[u] = "write_blocked"
        /\ rwlock.waiters = 2

\* Thread t is at a step of try_read() or try_write().
WInTry(t) == wpc[t] \in {"tryr_load", "tryr_cas", "tryw_cas"}

\* C15: while another thread holds the write lock, a step of try_read or
\* try_write ends the call with false and changes neither users nor waiters.
C15_TryFailsUnderWriter ==
    [][\A t \in Threads :
          (/\ \E s \in Threads \ {t} : WriteHolds(s)
           /\ WInTry(t) /\ <<wpc[t], wusers[t]>>' # <<wpc[t], wusers[t]>>)
          => /\ wpc'[t] \in {"tryr_ret", "tryw_ret"}
             /\ ~wret'[t]
             /\ rwlock' = rwlock]_vars

C15_Witness ==
    \E s, t, u \in Threads :
        /\ wheld[s]
        /\ wpc[t] = "tryr_ret" /\ ~wret[t]
        /\ wpc[u] = "tryw_ret" /\ ~wret[u]
        /\ rwlock = [users |-> RWLOCK_WRITER, waiters |-> 0]

\* One or more readers and no writer hold the lock, with room for another reader.
ReadersHold ==
    /\ \E s \in Threads : ReadHolds(s) > 0
    /\ \A s \in Threads : ~WriteHolds(s)
    /\ rwlock.users < RWLOCK_WRITER - 1

\* Thread t takes a step of the operation it is in.
WSteps(t) == <<wpc[t], wusers[t]>>' # <<wpc[t], wusers[t]>>

\* C16: while readers hold the lock, try_write returns false and leaves users
\* alone; read and try_read go from their load to the compare-and-swap (never
\* to the wait call, the false return or the fatal path), and the
\* compare-and-swap either raises users by exactly one and returns (true for
\* try_read) or lost a race to another reader and is retried.
C16_ReadersAdmitReaders ==
    [][\A t \in Threads :
          (ReadersHold /\ WSteps(t)) =>
             /\ wpc[t] = "tryw_cas" =>
                   wpc'[t] = "tryw_ret" /\ ~wret'[t] /\ rwlock' = rwlock
             /\ wpc[t] = "read_load" => wpc'[t] = "read_cas" /\ rwlock' = rwlock
             /\ wpc[t] = "tryr_load" => wpc'[t] = "tryr_cas" /\ rwlock' = rwlock
             /\ wpc[t] = "read_cas" =>
                   \/ wpc'[t] = "read_ret" /\ rwlock'.users = rwlock.users + 1
                   \/ wpc'[t] = "read_cas" /\ rwlock' = rwlock
             /\ wpc[t] = "tryr_cas" =>
                   \/ wpc'[t] = "tryr_ret" /\ wret'[t] /\ rwlock'.users = rwlock.users + 1
                   \/ wpc'[t] = "tryr_cas" /\ rwlock' = rwlock]_vars

\* A thread holding a read lock got true from a nested try_read, a second
\* thread's read() returned and a third thread's try_write returned false.
C16_Witness ==
    \E t, u, v \in Threads :
        /\ rheld[t] = 1 /\ wpc[t] = "tryr_ret" /\ wret[t]
        /\ wpc[u] = "tryw_ret" /\ ~wret[u]
        /\ wpc[v] = "read_ret"
        /\ rwlock = [users |-> 3, waiters |-> 0]

------------------------------------------------------------------------------
(***************************************************************************)
(* examples/rwlock.rs, main (lines 13-57): NTHREADS threads, each           *)
(* ITERATIONS times: read, check, nested try_read and check, drop the read  *)
(* guards, write, increment, drop the write guard.                          *)
(***************************************************************************)

\* line 25, 29: the next round begins with lock.read()
WTestCallRead(t) ==
    /\ t \in TestThreads
    /\ wpc[t] = "idle" /\ iter[t] < ITERATIONS
    /\ wpc' = [wpc EXCEPT ![t] = "read_load"]
    /\ UNCHANGED <<rwlock, wusers, wret, rheld, wheld, notRWLock, test>>

\* line 29-30, 32: read() returned; assert!(*r1 >= 5), then lock.try_read()
WTestCheckRead(t) ==
    /\ wpc[t] = "read_ret" /\ t \in TestThreads
    /\ rheld' = [rheld EXCEPT ![t] = @ + 1]
    /\ wpc' = [wpc EXCEPT ![t] = IF data >= InitialData THEN "tryr_load" ELSE "panic"]
    /\ UNCHANGED <<rwlock, wusers, wret, wheld, notRWLock, test>>

\* line 32-36: try_read() returned; Ok(r2) => assert!(*r2 >= 5), Err(_) => {};
\* the block ends and the first read guard is dropped
WTestCheckTryRead(t) ==
    /\ wpc[t] = "tryr_ret" /\ t \in TestThreads
    /\ rheld' = [rheld EXCEPT ![t] = IF wret[t] THEN @ ELSE @ - 1]
    /\ wret' = [wret EXCEPT ![t] = FALSE]
    /\ wpc' = [wpc EXCEPT ![t] = IF wret[t] /\ data < InitialData THEN "panic"
                                 ELSE "runlock_load"]
    /\ UNCHANGED <<rwlock, wusers, wheld, notRWLock, test>>

\* line 36, 44: a read guard was dropped; drop the other one, or go on to lock.write()
WTestReadUnlocked(t) ==
    /\ wpc[t] = "runlock_ret" /\ t \in TestThreads
    /\ IF rheld[t] > 0
       THEN /\ rheld' = [rheld EXCEPT ![t] = @ - 1]
            /\ wpc' = [wpc EXCEPT ![t] = "runlock_load"]
       ELSE /\ wpc' = [wpc EXCEPT ![t] = "write_cas"]
            /\ UNCHANGED rheld
    /\ UNCHANGED <<rwlock, wusers, wret, wheld, notRWLock, test>>

\* line 44-45: write() returned; the read of `*w += 1`
WTestRead(t) ==
    /\ wpc[t] = "write_ret" /\ t \in TestThreads
    /\ wheld' = [wheld EXCEPT ![t] = TRUE]
    /\ wusers' = [wusers EXCEPT ![t] = 0]
    /\ local' = [local EXCEPT ![t] = data]
    /\ wpc' = [wpc EXCEPT ![t] = "test_write"]
    /\ UNCHANGED <<rwlock, wret, rheld, notRWLock, data, iter>>

\* line 45-46: the write of `*w += 1`; the write guard is dropped
WTestWrite(t) ==
    /\ wpc[t] = "test_write"
    /\ data' = local[t] + 1
    /\ local' = [local EXCEPT ![t] = 0]
    /\ wheld' = [wheld EXCEPT ![t] = FALSE]
    /\ wpc' = [wpc EXCEPT ![t] = "wunlock_cas"]
    /\ UNCHANGED <<rwlock, wusers, wret, rheld, notRWLock, iter>>

\* line 46-47: write_unlock() returned; the round is over
WTestRoundDone(t) ==
    /\ wpc[t] = "wunlock_ret" /\ t \in TestThreads
    /\ iter' = [iter EXCEPT ![t] = @ + 1]
    /\ wpc' = [wpc EXCEPT ![t] = "idle"]
    /\ UNCHANGED <<rwlock, wusers, wret, rheld, wheld, notRWLock, data, local>>

\* The example never calls try_write (its lines 39-40 are commented out).
NextRWLockTest ==
    \E t \in Threads :
        \/ RWLockStepNoTryWrite(t)
        \/ RWLockInterrupt(t)
        \/ WTestCallRead(t)
        \/ WTestCheckRead(t)
        \/ WTestCheckTryRead(t)
        \/ WTestReadUnlocked(t)
        \/ WTestRead(t)
        \/ WTestWrite(t)
        \/ WTestRoundDone(t)

SpecRWLockTest == Init /\ [][NextRWLockTest]_vars

\* line 52-56: every thread was joined
WTestFinished == \A t \in TestThreads : wpc[t] = "idle" /\ iter[t] = ITERATIONS

\* Increments of `data` thread t has completed: one per finished round, and
\* one more once the write of its current round is done.
WWritesDone(t) ==
    iter[t] + (IF wpc[t] \in {"wunlock_cas", "wunlock_waiters", "wunlock_wake",
                              "wunlock_ret"} THEN 1 ELSE 0)

RECURSIVE WSumWrites(_)
WSumWrites(S) == IF S = {} THEN 0
                 ELSE LET t == CHOOSE x \in S : TRUE IN WWritesDone(t) + WSumWrites(S \ {t})

------------------------------------------------------------------------------
RWLockBlockingReturn(t) == WReadReturn(t) \/ WWriteReturn(t) \/ WUnlockReturn(t)

\* Callers that use read, write and the two unlocks only.
NextRWLockBlocking ==
    \E t \in Threads :
        \/ RWLockBlockingStep(t) \/ RWLockInterrupt(t)
        \/ WCallRead(t) \/ WCallWrite(t) \/ WCallReadUnlock(t) \/ WCallWriteUnlock(t)
        \/ RWLockBlockingReturn(t)

\* Every thread inside an operation keeps taking steps (a suspended thread
\* has none of its own), and a thread that holds the lock eventually calls
\* the matching unlock.  Threads need not ask for the lock again, and
\* FUTEX_WAIT need not return spuriously.
RWLockFairness ==
    \A t \in Threads :
        /\ WF_vars(RWLockBlockingStep(t) \/ RWLockBlockingReturn(t))
        /\ SF_vars(WCallReadUnlock(t) \/ WCallWriteUnlock(t))

\* The blocking operations and the unlocks, under that fairness.  The other
\* two locks stay as constructed and take no step; their padding is fixed.
RWLockFairInit == Init /\ mutex.pad = 0 /\ rmutex.pad = 0

SpecRWLockFair == RWLockFairInit /\ [][NextRWLockBlocking]_vars /\ RWLockFairness

\* Thread t is inside read() or write() and has not acquired yet.
WInBlockingAcquire(t) ==
    wpc[t] \in {"read_load", "read_cas", "read_add", "read_wait", "read_blocked", "read_sub",
                "write_cas", "write_add", "write_wait", "write_blocked", "write_sub"}

\* C18: read() and write() block only until the lock becomes available.  No
\* thread stays suspended in the wait call forever while users is 0, and
\* whenever the lock is free with a thread inside read() or write(), the
\* lock is eventually acquired.
C18_RWEventuallyAcquires ==
    /\ \A t \in Threads : []<>(~(t \in RWBlocked /\ rwlock.users = 0))
    /\ (rwlock.users = 0 /\ \E t \in Threads : WInBlockingAcquire(t)) ~> (rwlock.users # 0)

\* The last reader left while two writers were suspended: its wake resumed
\* one of them, the other is still suspended and users is 0.
C18_Witness ==
    \E r, t, u \in Threads :
        /\ wpc[r] = "runlock_ret"
        /\ wpc[t] = "write_sub"
        /\ wpc[u] = "write_blocked"
        /\ rwlock = [users |-> 0, waiters |-> 2]

------------------------------------------------------------------------------
\* A thread that never acquires the RWLock and calls its unlocks all the same.
Intruder == NThreads

\* read_unlock() by a thread that holds the lock in neither mode.
WCallReadUnlockNotHeld(t) == rheld[t] = 0 /\ ~wheld[t] /\ WCall(t, "runlock_load")

\* write_unlock() by a thread that holds the lock in neither mode.
WCallWriteUnlockNotHeld(t) == rheld[t] = 0 /\ ~wheld[t] /\ WCall(t, "wunlock_cas")

NextRWLockMisuse ==
    \/ \E t \in Threads \ {Intruder} :
           RWLockStep(t) \/ RWLockInterrupt(t) \/ RWLockClient(t)
    \/ WCallReadUnlockNotHeld(Intruder)
    \/ WCallWriteUnlockNotHeld(Intruder)
    \/ RWLockStep(Intruder)
    \/ WUnlockReturn(Intruder)

SpecRWLockMisuse == Init /\ [][NextRWLockMisuse]_vars

\* C20: an unlock by a thread that holds the RWLock in neither mode ends in
\* the fatal outcome and releases nobody's hold: such a call never gets past
\* the checks of read_unlock or write_unlock, whatever the state of the lock.
C20_StrayUnlockIsFatal ==
    wpc[Intruder] \notin {"runlock_waiters", "runlock_wake", "runlock_ret",
                          "wunlock_waiters", "wunlock_wake", "wunlock_ret"}

------------------------------------------------------------------------------
\* C21: a step of read_unlock that observes users equal to RWLOCK_WRITER or
\* to 0 (its load, or its compare-and-swap after a lost race) ends in the
\* fatal path, leaves users and waiters as they are and resumes no thread;
\* the fatal path is final.
C21_ReadUnlockFatal ==
    [][\A t \in Threads :
          /\ (/\ wpc[t] \in {"runlock_load", "runlock_cas"} /\ WSteps(t)
              /\ rwlock.users \in {0, RWLOCK_WRITER})
             => /\ wpc'[t] = "panic"
                /\ rwlock' = rwlock
                /\ \A s \in Threads \ {t} : wpc'[s] = wpc[s]
          /\ wpc[t] = "panic" => wpc'[t] = "panic"]_vars

\* The stray read_unlock observed the sentinel and ended fatally while the
\* writer still holds and a reader is suspended.
C21_Witness ==
    /\ wpc[Intruder] = "panic" /\ wusers[Intruder] = RWLOCK_WRITER
    /\ \E t, s \in Threads : wheld[t] /\ wpc[s] = "read_blocked"
    /\ rwlock = [users |-> RWLOCK_WRITER, waiters |-> 1]

\* C22: write_unlock whose compare-and-swap finds users different from
\* RWLOCK_WRITER (free or reader-held) ends in the fatal path, leaves users
\* and waiters as they are and resumes no thread.
C22_WriteUnlockFatal ==
    [][\A t \in Threads :
          (wpc[t] = "wunlock_cas" /\ wpc'[t] # "wunlock_cas"
           /\ rwlock.users # RWLOCK_WRITER)
          => /\ wpc'[t] = "panic"
             /\ rwlock' = rwlock
             /\ \A s \in Threads \ {t} : wpc'[s] = wpc[s]]_vars

\* The stray write_unlock found two read holds and ended fatally; the
\* readers still hold and a writer is suspended.
C22_Witness ==
    /\ wpc[Intruder] = "panic" /\ wusers[Intruder] = 2
    /\ \E t, s \in Threads : rheld[t] = 2 /\ wpc[s] = "write_blocked"
    /\ rwlock = [users |-> 2, waiters |-> 1]

------------------------------------------------------------------------------
\* Callers that unlock only what they hold but take read locks without
\* regard to the limit of the reader count.
WCallReadCrowded(t) == ~wheld[t] /\ rheld[t] <= MaxReads /\ WCall(t, "read_load")

WCallTryReadCrowded(t) == rheld[t] <= MaxReads /\ WCall(t, "tryr_load")

NextRWLockCrowded ==
    \E t \in Threads :
        \/ RWLockStep(t) \/ RWLockInterrupt(t)
        \/ WCallReadCrowded(t) \/ WCallTryReadCrowded(t)
        \/ WCallWrite(t) \/ WCallTryWrite(t)
        \/ WCallReadUnlock(t) \/ WCallWriteUnlock(t)
        \/ RWLockReturn(t)

SpecRWLockCrowded == RWLockFairInit /\ [][NextRWLockCrowded]_vars

\* C23: reader-count exhaustion is fatal, not a wraparound.  A step of read
\* or try_read that observes users equal to RWLOCK_WRITER - 1 (its load, or
\* its compare-and-swap after a lost race) ends in the fatal path and leaves
\* users and waiters alone; users becomes RWLOCK_WRITER only by the
\* compare-and-swap of write or try_write, never by a reader's.
C23_ReaderExhaustionFatal ==
    [][/\ \A t \in Threads :
             (/\ wpc[t] \in {"read_load", "read_cas", "tryr_load", "tryr_cas"} /\ WSteps(t)
              /\ rwlock.users = RWLOCK_WRITER - 1)
             => wpc'[t] = "panic" /\ rwlock' = rwlock
       /\ (rwlock'.users = RWLOCK_WRITER /\ rwlock.users # RWLOCK_WRITER)
             => \E t \in Threads : /\ wpc[t] \in {"write_cas", "tryw_cas"}
                                   /\ wpc'[t] \in {"write_ret", "tryw_ret"}]_vars

\* Two calls of read or try_read ended fatally at RWLOCK_WRITER - 1 read
\* holds, which are all still out.
C23_Witness ==
    \E t, u, v \in Threads :
        /\ t # u
        /\ wpc[t] = "panic" /\ wusers[t] = RWLOCK_WRITER - 1
        /\ wpc[u] = "panic" /\ wusers[u] = RWLOCK_WRITER - 1
        /\ rheld[v] = MaxReads + 1
        /\ rwlock.users = RWLOCK_WRITER - 1

------------------------------------------------------------------------------
\* Every thread inside an operation keeps taking steps; nothing is assumed
\* about when callers call.
RWLockStepFairness == \A t \in Threads : WF_vars(RWLockStep(t) \/ RWLockReturn(t))

SpecRWLockStepFair == RWLockFairInit /\ [][NextRWLock]_vars /\ RWLockStepFairness

\* Thread t is inside try_read, try_write, read_unlock or write_unlock.
WInNonBlockingCall(t) ==
    wpc[t] \in {"tryr_load", "tryr_cas", "tryr_ret", "tryw_cas", "tryw_ret",
                "runlock_load", "runlock_cas", "runlock_waiters", "runlock_wake", "runlock_ret",
                "wunlock_cas", "wunlock_waiters", "wunlock_wake", "wunlock_ret"}

\* C24: the try and unlock operations are bounded.  They never enter the
\* wait call, and a thread that keeps taking steps leaves every call of
\* try_read, try_write, read_unlock and write_unlock, whatever the other
\* threads do meanwhile.
C24_NonBlockingCallsReturn ==
    \A t \in Threads : []<>(~WInNonBlockingCall(t))

\* One thread writes, the others only take and release read locks.
WriterThread == 1

NextRWLockOneWriter ==
    \/ \E t \in Threads :
           \/ RWLockBlockingStep(t) \/ RWLockInterrupt(t)
           \/ WCallReadUnlock(t) \/ WCallWriteUnlock(t)
           \/ RWLockBlockingReturn(t)
    \/ \E t \in Threads \ {WriterThread} : WCallRead(t)
    \/ WCallWrite(WriterThread)

SpecRWLockOneWriterFair ==
    RWLockFairInit /\ [][NextRWLockOneWriter]_vars /\ RWLockFairness

\* Thread t is inside write() and has not acquired yet.
WInWrite(t) == wpc[t] \in {"write_cas", "write_add", "write_wait", "write_blocked", "write_sub"}

\* C25: writer starvation bound.  A thread inside write() eventually holds
\* the write lock, even when other threads keep taking and releasing read
\* locks.
C25_WriterEventuallyAcquires ==
    \A t \in Threads : WInWrite(t) ~> WriteHolds(t)

------------------------------------------------------------------------------
\* C26: the wait of Mutex::lock suspends the caller only if the locked cell
\* is true at the instant the kernel checks it; when the cell has become
\* false the wait returns at once and lock retries.
C26_WaitKeyedOnLocked ==
    [][\A t \in Threads :
          (mpc[t] = "lock_wait" /\ mpc'[t] = "lock_blocked") => mutex.locked]_vars

------------------------------------------------------------------------------
\* C27: try_lock on a free ReentrantMutex records the caller.  When a thread
\* that held nothing gets true from try_lock, owner is that thread and
\* reentrance_count is 0.
C27_TryLockRecordsOwner ==
    \A t \in Threads :
        (rpc[t] = "try_ret" /\ rret[t] /\ rdepth[t] = 0)
        => rmutex.owner = t /\ rmutex.reentrance_count = 0

\* No lock, try_lock or unlock call on the ReentrantMutex is in progress.
RQuiescent == \A t \in Threads : rpc[t] = "idle"

\* C28: owner/locked invariant.  Whenever no call on the ReentrantMutex is
\* in progress, owner is non-null exactly when locked is true, and a
\* non-null owner is the thread that holds the lock.
C28_OwnerIffLocked ==
    RQuiescent =>
        /\ (rmutex.owner # NullThread) <=> rmutex.locked
        /\ rmutex.owner # NullThread => rdepth[rmutex.owner] > 0

\* C29: depth reset.  Whenever locked is false reentrance_count is 0, and at
\* every step that takes locked from false to true (the compare-and-swap of
\* lock or try_lock) reentrance_count is 0, whatever calls came before,
\* unlocks by threads that hold nothing included.
C29_DepthReset ==
    /\ [](~rmutex.locked => rmutex.reentrance_count = 0)
    /\ [][(~rmutex.locked /\ rmutex'.locked) => rmutex'.reentrance_count = 0]_vars

\* The lock was released from a nested hold and taken again: one thread has
\* returned from unlock, another has just acquired and nests once.
C29_Witness ==
    \E t, s \in Threads :
        /\ t # s
        /\ rpc[s] = "unlock_ret" /\ rdepth[s] = 0
        /\ rmutex.owner = t /\ rdepth[t] = 2 /\ rmutex.reentrance_count = 1
        /\ rmutex.locked

\* Thread t is at a step that writes owner or reads or writes reentrance_count.
RTouchesOwnerOrCount(t) ==
    rpc[t] \in {"lock_store", "lock_inc", "try_inc", "unlock_count", "unlock_dec",
                "unlock_clear"}

\* C30: owner and reentrance_count are written only by the current holder.
\* A thread about to write owner or to access reentrance_count has the lock
\* (locked is true and it is the recorded owner, or its compare-and-swap has
\* just acquired), no other thread has a hold, and no second thread is at
\* such a step at the same time.
C30_OnlyHolderWrites ==
    \A t \in Threads :
        RTouchesOwnerOrCount(t) =>
            /\ rmutex.locked
            /\ rpc[t] = "lock_store" \/ rmutex.owner = t
            /\ \A s \in Threads \ {t} : ~RTouchesOwnerOrCount(s) /\ rdepth[s] = 0

\* The owner is about to nest while one thread is suspended in lock() and
\* another's unlock without a hold has ended fatally.
C30_Witness ==
    \E t, s, u \in Threads :
        /\ rpc[t] = "lock_inc" /\ rdepth[t] = 1
        /\ rpc[s] = "lock_blocked"
        /\ rpc[u] = "panic" /\ rdepth[u] = 0

------------------------------------------------------------------------------
(***************************************************************************)
(* The encoding of `users`, rwlock.rs:17-28.  A hold lasts from the         *)
(* compare-and-swap that acquired it to the compare-and-swap that gives it  *)
(* back, so a thread that has called an unlock and has not yet swapped      *)
(* still counts.                                                            *)
(***************************************************************************)

\* Thread t has the write lock as far as `users` can tell: it holds it, or
\* has called write_unlock and not executed its compare_and_swap yet.
WriterOutstanding(t) == WriteHolds(t) \/ wpc[t] = "wunlock_cas"

RECURSIVE ReadsOutstanding(_)
\* Read holds of the threads of S that `users` still accounts for: those
\* held, and one for a read_unlock whose compare_and_swap has not succeeded yet.
ReadsOutstanding(S) ==
    IF S = {} THEN 0
    ELSE LET t == CHOOSE x \in S : TRUE
         IN ReadHolds(t) + (IF wpc[t] \in {"runlock_load", "runlock_cas"} THEN 1 ELSE 0)
            + ReadsOutstanding(S \ {t})

\* C31: users is RWLOCK_WRITER exactly when a writer holds the lock (and then
\* exactly one does), 0 exactly when nobody holds it, and otherwise the
\* number of read holds outstanding.
C31_UsersEncoding ==
    /\ rwlock.users = RWLOCK_WRITER <=> \E t \in Threads : WriterOutstanding(t)
    /\ \A t, s \in Threads : WriterOutstanding(t) /\ WriterOutstanding(s) => t = s
    /\ rwlock.users = 0 <=>
          /\ \A t \in Threads : ~WriterOutstanding(t)
          /\ ReadsOutstanding(Threads) = 0
    /\ rwlock.users # RWLOCK_WRITER => rwlock.users = ReadsOutstanding(Threads)

\* Three read holds are outstanding: two nested ones of one thread and one a
\* second thread is giving back, while a writer is suspended.
C31_Witness ==
    \E t, s, u \in Threads :
        /\ rheld[t] = 2 /\ wpc[t] = "idle"
        /\ wpc[s] = "runlock_cas" /\ rheld[s] = 0
        /\ wpc[u] = "write_blocked"
        /\ rwlock.users = 3

\* C32: users is never RWLOCK_WRITER - 1: its values are 0, the reader counts
\* 1 .. RWLOCK_WRITER - 2 and RWLOCK_WRITER, whatever read and try_read calls
\* are made.
C32_NeverAtLimit == rwlock.users # RWLOCK_WRITER - 1

C34_ReadersNeverBlockBehindReaders ==
    [][\A t \in Threads :
          WSteps(t) =>
             /\ (wpc[t] = "read_wait" /\ wpc'[t] = "read_blocked")
                   => rwlock.users = RWLOCK_WRITER
             /\ wpc'[t] = "read_add" => rwlock.users = RWLOCK_WRITER
             /\ (/\ wpc[t] \in {"read_load", "read_cas", "read_wait"}
                 /\ \A s \in Threads : ~WriterOutstanding(s))
                   => /\ wpc'[t] \in {"read_cas", "read_ret", "read_sub"}
                      /\ wpc'[t] = "read_ret" =>
                            wpc[t] = "read_cas" /\ rwlock'.users = rwlock.users + 1
                      /\ wpc'[t] = "read_sub" => wpc[t] = "read_wait"]_vars

\* A thread is at the wait call of read() after the writer it saw has left
\* and another thread took two read locks: the kernel will not suspend it.
C34_Witness ==
    \E t, s \in Threads :
        /\ wpc[t] = "read_wait" /\ wusers[t] = RWLOCK_WRITER
        /\ rheld[s] = 2 /\ rwlock.users = 2
        /\ RWBlocked = {}

\* C35: the wakes of the two unlocks.  write_unlock, after its successful
\* swap, issues its wake iff it reads waiters # 0, and the wake resumes every
\* suspended thread.  read_unlock reads waiters only when its own swap
\* brought users to 0, issues its wake iff it then reads waiters # 0, and the
\* wake resumes at most one thread.  No other step of an unlock resumes any
\* thread.
C35_AsymmetricWakeWidth ==
    [][LET \* the suspended threads that the step resumes
           RWWoken == {s \in RWBlocked : wpc'[s] # wpc[s]}
       IN
       \A t \in Threads :
          (/\ wpc[t] \in {"runlock_load", "runlock_cas", "runlock_waiters", "runlock_wake",
                          "wunlock_cas", "wunlock_waiters", "wunlock_wake"}
           /\ wpc'[t] # wpc[t]) =>
             /\ wpc[t] = "wunlock_waiters" =>
                   wpc'[t] = (IF rwlock.waiters # 0 THEN "wunlock_wake" ELSE "wunlock_ret")
             /\ wpc[t] = "wunlock_wake" => RWWoken = RWBlocked
             /\ wpc'[t] = "runlock_waiters" =>
                   wpc[t] = "runlock_cas" /\ rwlock.users = 1 /\ rwlock'.users = 0
             /\ (wpc[t] = "runlock_cas" /\ wpc'[t] = "runlock_ret") =>
                   rwlock'.users = rwlock.users - 1 /\ rwlock'.users # 0
             /\ wpc[t] = "runlock_waiters" =>
                   wpc'[t] = (IF rwlock.waiters # 0 THEN "runlock_wake" ELSE "runlock_ret")
             /\ wpc'[t] = "runlock_wake" => wpc[t] = "runlock_waiters"
             /\ wpc'[t] = "wunlock_wake" => wpc[t] = "wunlock_waiters"
             /\ wpc[t] = "runlock_wake" => Cardinality(RWWoken) <= 1
             /\ wpc[t] \notin {"runlock_wake", "wunlock_wake"} => RWWoken = {}]_vars

\* write_unlock has returned from its wake while a reader and a writer, both
\* resumed, are about to decrement waiters.
C35_Witness ==
    \E t, s, u \in Threads :
        /\ wpc[t] = "wunlock_ret"
        /\ wpc[s] = "read_sub" /\ wpc[u] = "write_sub"
        /\ rwlock = [users |-> 0, waiters |-> 2]

------------------------------------------------------------------------------
(* The wake of Mutex::unlock, mutex.rs:66-73 *)

\* C36: after its compare-and-swap changed locked from true to false, unlock
\* issues the wake iff it then reads waiters # 0; the wake resumes at most one
\* suspended thread, changes nothing but the position of that thread and of
\* the caller, and with no thread suspended only the caller moves on.  No
\* other step of unlock resumes a thread.
C36_UnlockWakeStep ==
    [][LET \* threads the kernel holds suspended on the futex of the Mutex
           MBlocked == {s \in Threads : mpc[s] = "lock_blocked"}
           \* those of them that the step resumes
           MWoken == {s \in Threads : mpc[s] = "lock_blocked" /\ mpc'[s] # mpc[s]}
       IN
       \A t \in Threads :
          (mpc[t] \in {"unlock_cas", "unlock_load", "unlock_wake"} /\ mpc'[t] # mpc[t]) =>
             /\ mpc'[t] = "unlock_load" =>
                   mpc[t] = "unlock_cas" /\ mutex.locked /\ ~mutex'.locked
             /\ mpc[t] = "unlock_load" =>
                   mpc'[t] = (IF mutex.waiters # 0 THEN "unlock_wake" ELSE "unlock_ret")
             /\ mpc'[t] = "unlock_wake" => mpc[t] = "unlock_load"
             /\ mpc[t] = "unlock_wake" =>
                   /\ Cardinality(MWoken) <= 1
                   /\ mutex' = mutex
                   /\ \A s \in Threads \ (MBlocked \cup {t}) : mpc'[s] = mpc[s]
                   /\ \A s \in MWoken : mpc'[s] = "lock_sub"
             /\ mpc[t] # "unlock_wake" => MWoken = {}]_vars

\* unlock has returned from a wake that resumed one of two suspended
\* threads; the other is still suspended.
C36_Witness ==
    \E t, s, u \in Threads :
        /\ mpc[t] = "unlock_ret"
        /\ mpc[s] = "lock_sub" /\ mpc[u] = "lock_blocked"
        /\ mutex.waiters = 2 /\ ~mutex.locked

------------------------------------------------------------------------------
(***************************************************************************)
(* The waiters counters, mutex.rs:57-60 and 139-142, rwlock.rs:51-54 and    *)
(* 96-99.  The three locks share no state, so they are exercised one at a   *)
(* time: a lock is used while the other two are as constructed.             *)
(***************************************************************************)

NextOneLockAtATime ==
    \/ RMutexInit /\ RWLockInit /\ NextMutex
    \/ MutexInit /\ RWLockInit /\ NextRMutex
    \/ MutexInit /\ RMutexInit /\ NextRWLock

SpecOneLockAtATime == Init /\ [][NextOneLockAtATime]_vars

\* C37: for each of the three locks, waiters is the number of threads that
\* have executed the increment before the wait call and not yet the
\* decrement after it.  So it is never negative (never wraps), is at least
\* the number of threads suspended on the lock, and is 0 when no thread is
\* inside a blocking acquire.
C37_WaitersCount ==
    /\ mutex.waiters =
          Cardinality({t \in Threads : mpc[t] \in {"lock_wait", "lock_blocked", "lock_sub"}})
    /\ rmutex.waiters =
          Cardinality({t \in Threads : rpc[t] \in {"lock_wait", "lock_blocked", "lock_sub"}})
    /\ rwlock.waiters =
          Cardinality({t \in Threads :
                         wpc[t] \in {"read_wait", "read_blocked", "read_sub",
                                     "write_wait", "write_blocked", "write_sub"}})
    /\ mutex.waiters >= Cardinality({t \in Threads : mpc[t] = "lock_blocked"})
    /\ rmutex.waiters >= Cardinality({t \in Threads : rpc[t] = "lock_blocked"})
    /\ rwlock.waiters >= Cardinality(RWBlocked)
    /\ (\A t \in Threads : ~InLock(t)) => mutex.waiters = 0
    /\ (\A t \in Threads : ~RInLock(t)) => rmutex.waiters = 0
    /\ (\A t \in Threads : ~WInBlockingAcquire(t)) => rwlock.waiters = 0

\* Two threads are counted by the Mutex: one suspended, one resumed and about
\* to decrement.
C37_Witness ==
    \E s, u \in Threads :
        /\ mpc[s] = "lock_blocked" /\ mpc[u] = "lock_sub"
        /\ mutex.waiters = 2

------------------------------------------------------------------------------
(* The owner slot of the ReentrantMutex between the steps of lock and unlock *)

\* C38: owner is never stale, also between the atomic steps of lock and
\* unlock: while owner is not null, locked is true and owner is the one
\* thread whose compare-and-swap acquired the lock; a thread on the reentrant
\* branch of lock or try_lock holds the lock.
C38_OwnerNeverStale ==
    LET \* the compare-and-swap of t acquired the lock and its last unlock has
        \* not completed: t has holds, is returning from the acquiring call,
        \* or is inside an unlock it called with a hold
        RHolder(t) ==
            \/ rdepth[t] > 0
            \/ rpc[t] \in {"lock_store", "lock_ret"}
            \/ rpc[t] = "try_ret" /\ rret[t]
            \/ RInUnlock(t)
    IN
    /\ rmutex.owner # NullThread =>
          /\ rmutex.locked
          /\ RHolder(rmutex.owner)
          /\ \A s \in Threads \ {rmutex.owner} : ~RHolder(s)
    /\ \A t \in Threads :
          rpc[t] \in {"lock_inc", "try_inc"} => rdepth[t] >= 1 /\ rmutex.owner = t

\* The owner is in its last unlock, about to clear owner, while a second
\* thread in lock() is about to compare owner with itself and a third is
\* suspended.
C38_Witness ==
    \E t, s, u \in Threads :
        /\ rmutex.owner = t /\ rpc[t] = "unlock_clear" /\ rdepth[t] = 0
        /\ rpc[s] = "lock_owner"
        /\ rpc[u] = "lock_blocked"

------------------------------------------------------------------------------
(* The Mutex records no owner, mutex.rs:18-25 and 64-77 *)

\* C39: the Mutex tracks no owner.  The compare-and-swap of unlock ends
\* fatally iff locked is false, whoever the caller is.  Executed while another
\* thread holds the Mutex, it sets locked to false and the call goes on
\* without a fatal outcome, the holder still holding; and a lock or try_lock
\* that then finds locked false acquires while that holder still holds.
C39_NoOwnerTracking ==
    [][LET \* some thread other than t holds the Mutex
           MOtherHolds(t) == \E h \in Threads \ {t} : mholds[h]
       IN
       \A t \in Threads :
          /\ (mpc[t] = "unlock_cas" /\ mpc'[t] # mpc[t]) =>
                /\ mpc'[t] = "panic" <=> ~mutex.locked
                /\ (MOtherHolds(t) /\ mutex.locked) =>
                      /\ mpc'[t] = "unlock_load"
                      /\ ~mutex'.locked
                      /\ mholds' = mholds
          /\ (/\ mpc[t] \in {"lock_cas", "try_cas"} /\ mpc'[t] # mpc[t]
              /\ MOtherHolds(t) /\ ~mutex.locked) =>
                /\ mutex'.locked
                /\ mholds' = mholds
                /\ mpc'[t] = "lock_ret" \/ (mpc'[t] = "try_ret" /\ mret'[t])]_vars

\* After an unlock by a thread that held nothing has returned, a second
\* thread holds the Mutex together with the original holder, with no fatal
\* outcome anywhere.
C39_Witness ==
    \E h, t, u \in Threads :
        /\ h # t /\ h # u /\ t # u
        /\ mholds[h] /\ mpc[h] = "idle"
        /\ ~mholds[t] /\ mpc[t] = "unlock_ret"
        /\ mholds[u] /\ mpc[u] = "idle"
        /\ mutex.locked
        /\ \A s \in Threads : mpc[s] # "panic"

====
